---- MODULE Spec2Model ----
(***************************************************************************)
(* Model of dbt-fastapi's command layer (src/src/dbt_fastapi):             *)
(* request validation (schemas/request_schema.py), DbtManager              *)
(* (dbt_manager.py: argument builder, outcome classifier, result           *)
(* normaliser), the typed errors and the exception translation of          *)
(* exceptions.py, the handlers of exception_handlers.py and the routes.    *)
(*                                                                         *)
(* Conventions.  A Python Optional[T] is a sequence of length <= 1: <<>>   *)
(* is None and <<x>> is the value x.  A Python str that the code splits or *)
(* searches is a sequence of atoms (characters or indivisible chunks);     *)
(* the other strings are TLA+ strings.                                     *)
(***************************************************************************)
EXTENDS Integers, Sequences, FiniteSets, TLC

VARIABLES pc, payload, manager, result, outcome, nodes, test_summary, invocations,
          runner_args, raised_exception, response, validated,
          _config, get_dbt_config_cache, heap, getter, writer, calls,
          application, event_loop, handlers

\* The state of one request.
requestvars == <<pc, payload, manager, result, outcome, nodes, test_summary,
                 invocations, runner_args, raised_exception, response,
                 validated>>

\* The process-wide configuration of config.py: the global, the lru_cache of
\* get_dbt_config, the DbtConfig objects, the calls in flight and the calls made.
confvars == <<_config, get_dbt_config_cache, heap, getter, writer, calls>>

\* The server: the application it runs, the handler that holds its event
\* loop (0 when the loop is free) and the requests being handled.
servervars == <<application, event_loop, handlers>>

\* What the actions on one request leave alone.
othervars == <<confvars, servervars>>

vars == <<requestvars, othervars>>

(***************************************************************************)
(* Bounds of the exploration.                                              *)
(***************************************************************************)
\* Atoms in a select/exclude/selector string.
MaxStrLen == 2

\* Records in a result payload.
MaxRecords == 2

\* Lines in a run result's message.
MaxLines == 2

\* Atoms in an unsafe command string.
MaxCmdLen == 4

\* DbtConfig objects created by initialize_dbt_config.
MaxInstances == 2

\* Lines after the marker line in a target-not-found exception text.
MaxTargetLines == 2

\* Validations of one result after the one of execute_dbt_command.
MaxValidations == 2

\* Atoms in the output of a dbt subprocess.
MaxOutputLen == 2

\* Requests handled at the same time.
MaxHandlers == 2

\* Calls of initialize_dbt_config, reset_dbt_config and get_dbt_config.
MaxCalls == 4

(***************************************************************************)
(* Generic helpers.                                                        *)
(***************************************************************************)
NoneVal == <<>>

Some(x) == <<x>>

Opt(S) == {NoneVal} \cup {Some(x) : x \in S}

SeqsUpTo(S, n) == UNION {[1..k -> S] : k \in 0..n}

\* sep.join(parts), as the sequence of the parts and the separators.
RECURSIVE Join(_, _)
Join(parts, sep) ==
    IF Len(parts) <= 1 THEN parts
    ELSE <<Head(parts), sep>> \o Join(Tail(parts), sep)

(***************************************************************************)
(* Configuration handed to every route (config.py DbtConfig).              *)
(***************************************************************************)
dbt_target_default == "dev"

dbt_profiles_dir == "/profiles"

dbt_project_dir == "/project"

\* What initialize_dbt_config finds around it: the two directories of the
\* environment variables (None when unset), the number of directories
\* in which the search finds a configuration file, and whether the files
\* are in the configured directories.
Environments ==
    [dbt_profiles_dir : Opt({"/env/profiles"}),
     dbt_project_dir : Opt({"/env/project"}),
     found : 0..2,
     exists : BOOLEAN]

\* DbtConfig(): the settings read from the environment.
DbtConfig(env) ==
    [dbt_profiles_dir |-> env.dbt_profiles_dir,
     dbt_project_dir |-> env.dbt_project_dir,
     dbt_target_default |-> dbt_target_default]

\* _discover_config_file: the one directory found; it raises (None here)
\* when the file is found nowhere or more than once.
_discover_config_file(found, directory) ==
    IF found = 1 THEN Some(directory) ELSE NoneVal

\* DbtConfig.discover_paths: a directory that is not set is discovered and
\* assigned to the object.
discover_paths(config, found) ==
    LET profiles == IF config.dbt_profiles_dir = NoneVal
                    THEN _discover_config_file(found, dbt_profiles_dir)
                    ELSE config.dbt_profiles_dir
        project == IF config.dbt_project_dir = NoneVal
                   THEN _discover_config_file(found, dbt_project_dir)
                   ELSE config.dbt_project_dir
    IN [raised |-> profiles = NoneVal \/ project = NoneVal,
        config |-> [config EXCEPT !.dbt_profiles_dir = profiles,
                                  !.dbt_project_dir = project]]

\* DbtConfig.validate_configuration: TRUE when it returns, FALSE when it
\* raises; it assigns nothing.
validate_configuration(config, exists) ==
    /\ config.dbt_profiles_dir # NoneVal
    /\ config.dbt_project_dir # NoneVal
    /\ exists

\* The DbtConfig object of the lifespan startup, its directories discovered.
StartupConfig ==
    discover_paths(DbtConfig([dbt_profiles_dir |-> NoneVal,
                              dbt_project_dir |-> NoneVal,
                              found |-> 1, exists |-> TRUE]), 1).config

(***************************************************************************)
(* Requests (schemas/request_schema.py).  The verb is the route's COMMAND. *)
(***************************************************************************)
Verbs == {"run", "test", "build", "list", "compile"}

Targets == {"prod", "bad"}

\* Atoms of a selection string: whitespace, a word, and a word that is also
\* a flag of the dbt command line.
SelAtoms == {" ", "m", "--project-dir"}

SelStrings == SeqsUpTo(SelAtoms, MaxStrLen)

\* Python truthiness of an Optional[str]: None and "" are falsy.
Truthy(s) == s # NoneVal /\ Len(s[1]) > 0

\* pass_on_test_failures is a field of the test and build requests; its
\* default is False.
DbtCommandRequest(S) ==
    [verb : Verbs, target : Opt(Targets),
     select_args : Opt(S), exclude_args : Opt(S), selector_args : Opt(S),
     pass_on_test_failures : {FALSE}]

\* Requests whose selection strings range over all bounded strings.
AllRequests == DbtCommandRequest(SelStrings)

\* Requests without selection criteria.
PlainRequests == DbtCommandRequest({})

\* Requests without selection criteria for the default target.
DefaultRequests == {p \in PlainRequests : p.target = NoneVal}

\* Test and build requests for the default target, with either value of
\* pass_on_test_failures.
TestRequests ==
    [verb : {"test", "build"}, target : {NoneVal},
     select_args : {NoneVal}, exclude_args : {NoneVal}, selector_args : {NoneVal},
     pass_on_test_failures : BOOLEAN]

\* Variant: the validator forgets exclude_args.
validate_select_only(p) ==
    ~(Truthy(p.select_args) /\ Truthy(p.selector_args))

\* TRUE when the model validator accepts the request.
validate_mutually_exclusive_args(p) ==
    ~((Truthy(p.select_args) \/ Truthy(p.exclude_args)) /\ Truthy(p.selector_args))

(***************************************************************************)
(* The unsafe request (DbtUnsafeRequest): a whole command line as a string *)
(* of atoms: the word dbt, another word character, a blank, a single quote *)
(* and the shell operators.                                                *)
(***************************************************************************)
illegal_tokens == {"&&", "|", ";", "$(", "<", ">"}

CmdAtoms == {"dbt", "x", " ", "'"} \cup illegal_tokens

DbtUnsafeRequest ==
    [verb : {"unsafe"}, unsafe_dbt_cli_command : SeqsUpTo(CmdAtoms, MaxCmdLen)]

\* shlex.split(s): blanks separate the tokens, a single quote opens a part
\* that runs to the next quote and keeps its blanks; the quotes are dropped.
\* ok is FALSE when a quote is not closed (ValueError).
RECURSIVE ShlexFrom(_, _, _, _, _, _)
ShlexFrom(s, i, cur, in_token, in_quote, acc) ==
    IF i > Len(s)
    THEN IF in_quote THEN [ok |-> FALSE, tokens |-> <<>>]
         ELSE [ok |-> TRUE, tokens |-> IF in_token THEN Append(acc, cur) ELSE acc]
    ELSE IF in_quote
         THEN IF s[i] = "'"
              THEN ShlexFrom(s, i + 1, cur, TRUE, FALSE, acc)
              ELSE ShlexFrom(s, i + 1, Append(cur, s[i]), TRUE, TRUE, acc)
    ELSE IF s[i] = " "
         THEN ShlexFrom(s, i + 1, <<>>, FALSE, FALSE,
                        IF in_token THEN Append(acc, cur) ELSE acc)
    ELSE IF s[i] = "'"
         THEN ShlexFrom(s, i + 1, cur, TRUE, TRUE, acc)
    ELSE ShlexFrom(s, i + 1, Append(cur, s[i]), TRUE, FALSE, acc)

shlex_split(s) == ShlexFrom(s, 1, <<>>, FALSE, FALSE, <<>>)

\* Variant: only the first token is looked at.
sanitize_input_first_only(unsafe_dbt_cli_command) ==
    /\ \A i \in 1..Len(unsafe_dbt_cli_command) :
          unsafe_dbt_cli_command[i] \notin illegal_tokens
    /\ shlex_split(unsafe_dbt_cli_command).ok
    /\ shlex_split(unsafe_dbt_cli_command).tokens # <<>>
    /\ shlex_split(unsafe_dbt_cli_command).tokens[1] = <<"dbt">>

\* TRUE when the model validator accepts the command.
sanitize_input(unsafe_dbt_cli_command) ==
    /\ \A i \in 1..Len(unsafe_dbt_cli_command) :
          unsafe_dbt_cli_command[i] \notin illegal_tokens
    /\ shlex_split(unsafe_dbt_cli_command).ok
    /\ shlex_split(unsafe_dbt_cli_command).tokens # <<>>
    /\ shlex_split(unsafe_dbt_cli_command).tokens[1] = <<"dbt">>
    /\ \A i \in 2..Len(shlex_split(unsafe_dbt_cli_command).tokens) :
          \A j \in 1..Len(shlex_split(unsafe_dbt_cli_command).tokens[i]) :
              shlex_split(unsafe_dbt_cli_command).tokens[i][j] # "dbt"

(***************************************************************************)
(* DbtManager.__init__ and the argument builder.  An argument is a string, *)
(* i.e. a sequence of atoms; a literal is the one-atom string.             *)
(***************************************************************************)
Lit(a) == <<a>>

\* str.split(): the maximal runs of non-whitespace atoms, in order.
RECURSIVE SplitFrom(_, _, _)
SplitFrom(s, i, cur) ==
    IF i > Len(s)
    THEN IF cur = <<>> THEN <<>> ELSE <<cur>>
    ELSE IF s[i] = " "
         THEN (IF cur = <<>> THEN <<>> ELSE <<cur>>) \o SplitFrom(s, i + 1, <<>>)
         ELSE SplitFrom(s, i + 1, Append(cur, s[i]))

Split(s) == SplitFrom(s, 1, <<>>)

\* "x.split() if x else []"
SplitArg(s) == IF Truthy(s) THEN Split(s[1]) ELSE <<>>

_generate_dbt_args(verb, target, select_args, exclude_args, selector_args, profiles_yaml_dir, dbt_project_yaml_dir) ==
    <<Lit(verb), Lit("--project-dir"), Lit(dbt_project_yaml_dir),
      Lit("--profiles-dir"), Lit(profiles_yaml_dir)>>
    \o (IF verb = "list" THEN <<Lit("--output"), Lit("json")>> ELSE <<>>)
    \o (IF select_args # <<>> THEN <<Lit("--select")>> \o select_args ELSE <<>>)
    \o (IF exclude_args # <<>> THEN <<Lit("--exclude")>> \o exclude_args ELSE <<>>)
    \o (IF selector_args # <<>> THEN <<Lit("--selector")>> \o selector_args ELSE <<>>)
    \o <<Lit("--target"), Lit(target)>>

DbtManager(verb, target, profiles_dir, project_dir, select_args, exclude_args, selector_args) ==
    [verb |-> verb,
     target |-> target,
     select_args |-> SplitArg(select_args),
     exclude_args |-> SplitArg(exclude_args),
     selector_args |-> SplitArg(selector_args),
     profiles_yaml_dir |-> profiles_dir,
     dbt_project_yaml_dir |-> project_dir,
     dbt_cli_args |-> _generate_dbt_args(verb, target, SplitArg(select_args),
                                         SplitArg(exclude_args),
                                         SplitArg(selector_args),
                                         profiles_dir, project_dir)]

\* "payload.target or config.dbt_target_default"
TargetOrDefault(t) == IF t # NoneVal THEN t[1] ELSE dbt_target_default

(***************************************************************************)
(* The result of dbtRunner.invoke (dbtRunnerResult): success, exception    *)
(* and a payload that is None, the flat list of JSON strings of "list", or *)
(* an object with a "results" list of run results.                         *)
(***************************************************************************)
\* dbt's status enums are string enums: members compare by value, so
\* RunStatus.Error and TestStatus.Error are both "error".  "success" is
\* RunStatus.Success, a status no TestStatus member equals.
Statuses == {"pass", "warn", "fail", "error", "skipped", "success"}

ResourceTypes == {"test", "model"}

\* A line of text is a sequence of atoms; "x in line" is membership of the
\* atom, line.strip() drops the whitespace atoms at both ends.
Contains(line, atom) == \E i \in 1..Len(line) : line[i] = atom

RECURSIVE LStrip(_)
LStrip(line) ==
    IF line # <<>> /\ Head(line) = " " THEN LStrip(Tail(line)) ELSE line

RECURSIVE RStrip(_)
RStrip(line) ==
    IF line # <<>> /\ line[Len(line)] = " "
    THEN RStrip(SubSeq(line, 1, Len(line) - 1))
    ELSE line

Strip(line) == RStrip(LStrip(line))

\* The lines a run result's message is made of.
MessageLines ==
    {<<"Database Error in model">>,
     <<" ", " ", "Syntax error:", " Expected end of input">>,
     <<"Error:", " relation not found">>}

\* The empty string, as message.split("\n") sees it: one empty line.
EmptyMessage == <<<<>>>>

\* Messages of at most n lines.
Messages(n) ==
    {EmptyMessage} \cup UNION {[1..k -> MessageLines] : k \in 1..n}

\* Truthiness of an Optional[str] message.
MessageTruthy(m) == m # NoneVal /\ m[1] # EmptyMessage

NodeOf(name, resource_type) ==
    [unique_id |-> <<resource_type, ".proj.", name>>,
     name |-> name,
     original_file_path |-> <<"models/", name, ".sql">>,
     fqn |-> <<"proj", name>>,
     alias |-> name,
     resource_type |-> resource_type,
     depends_on |-> <<>>]

\* Run results over the given statuses, resource types, names and messages.
\* status = None: the record has no "status" attribute.  The run results
\* carry no execution_time and no failures.
RunResults(St, Rt, Nm, Msg) ==
    {[status |-> st, node |-> NodeOf(nm, rt), message |-> msg,
      execution_time |-> NoneVal, failures |-> NoneVal] :
        st \in St, rt \in Rt, nm \in Nm, msg \in Msg}

\* One JSON string of "dbt list --output json".
ListItems ==
    {[decodable |-> d, node |-> NodeOf("a", "model")] : d \in BOOLEAN}

NoPayload == [shape |-> "none", records |-> <<>>]

ListPayload(items) == [shape |-> "list", records |-> items]

ResultsPayload(rs) == [shape |-> "results", records |-> rs]

\* "result.result" as a condition: None and the empty list are falsy.
PayloadTruthy(p) ==
    \/ p.shape = "results"
    \/ p.shape = "list" /\ p.records # <<>>

\* hasattr(result.result, "results")
HasResults(p) == p.shape = "results"

TargetNotFoundMarker == "does not have a target named"

\* str(result.exception), as lines of atoms.
ExceptionTexts ==
    {<<<<"Runtime Error">>,
       <<"The profile 'p' ", TargetNotFoundMarker, " 'bad'. The valid target names are:">>,
       <<"- ", "dev">>,
       <<"- ", "prod">>>>,
     <<<<"Database Error">>, <<"connection refused">>>>}

RECURSIVE Flatten(_)
Flatten(lines) ==
    IF lines = <<>> THEN <<>>
    ELSE Head(lines) \o (IF Len(lines) > 1 THEN <<"\n">> ELSE <<>>) \o Flatten(Tail(lines))

HasTargetMarker(text) == Contains(Flatten(text), TargetNotFoundMarker)

WordAtoms == {"dev", "prod"}

\* re.findall(r"- (\w+)", text): every "- " that a word follows.
RECURSIVE FindTargets(_)
FindTargets(atoms) ==
    IF Len(atoms) < 2 THEN <<>>
    ELSE IF atoms[1] = "- " /\ atoms[2] \in WordAtoms
         THEN <<atoms[2]>> \o FindTargets(Tail(Tail(atoms)))
         ELSE FindTargets(Tail(atoms))

\* The lines a target-not-found text can hold after its marker line: a
\* target name, a target name with a hyphen in it, and prose with "- " in
\* its middle.
TargetLines ==
    {<<"- ", w>> : w \in WordAtoms}
    \cup {<<"- ", "dev", "-", "prod">>, <<"see ", "- ", "dev">>}

\* str(result.exception) of a target-not-found failure.
TargetTexts ==
    {<<<<"The profile 'p' ", TargetNotFoundMarker, " 'bad'">>>> \o rest :
        rest \in SeqsUpTo(TargetLines, MaxTargetLines)}

DbtRunnerResults(payloads) ==
    [success : BOOLEAN, exception : Opt(ExceptionTexts), result : payloads]

(***************************************************************************)
(* Typed errors (exceptions.py).  Every error has the same fields; a       *)
(* detail that a kind does not set is None.                                *)
(***************************************************************************)
HTTP_400_BAD_REQUEST == 400

HTTP_500_INTERNAL_SERVER_ERROR == 500

DbtFastApiError(kind, message, http_status_code, original_exception) ==
    [kind |-> kind,
     message |-> message,
     http_status_code |-> http_status_code,
     field |-> NoneVal,
     provided_target |-> NoneVal,
     valid_targets |-> NoneVal,
     failed_models |-> NoneVal,
     command |-> NoneVal,
     config_type |-> NoneVal,
     config_path |-> NoneVal,
     suggestion |-> NoneVal,
     original_exception |-> original_exception]

\* A message is text (a sequence of parts) or, when the caller passes one,
\* another Python value.
Text(parts) == [type |-> "str", value |-> parts]

ListValue(xs) == [type |-> "list", value |-> xs]

DbtTargetError(provided_target, valid_targets, original_exception) ==
    [DbtFastApiError("DbtTargetError",
                     Text(<<"Invalid dbt target '", provided_target, "'">>
                          \o (IF valid_targets # <<>>
                              THEN <<". Valid targets: ">> \o Join(valid_targets, ", ")
                              ELSE <<>>)),
                     HTTP_400_BAD_REQUEST, original_exception)
     EXCEPT !.field = Some("target"),
            !.provided_target = Some(provided_target),
            !.valid_targets = Some(valid_targets),
            !.suggestion = Some(IF valid_targets # <<>>
                                THEN <<"Use one of: ">> \o Join(valid_targets, ", ")
                                ELSE <<"Check your profiles.yml configuration">>)]

DbtCompilationError(message, failed_models) ==
    [DbtFastApiError("DbtCompilationError", message, HTTP_400_BAD_REQUEST, NoneVal)
     EXCEPT !.failed_models = Some(failed_models),
            !.suggestion = Some(<<"Check your SQL syntax in the failing models">>)]

\* DbtExecutionError(message, command=None): the details are set only when
\* a non-empty command is given; "command" is the space-joined list.
DbtExecutionError(message, command, original_exception) ==
    [DbtFastApiError("DbtExecutionError", message,
                     HTTP_500_INTERNAL_SERVER_ERROR, original_exception)
     EXCEPT !.command = IF command # NoneVal /\ command[1] # <<>>
                        THEN Some(Join(command[1], Lit(" "))) ELSE NoneVal,
            !.suggestion = IF command # NoneVal /\ command[1] # <<>>
                           THEN Some(<<"Check dbt logs for detailed error information">>)
                           ELSE NoneVal]

create_compilation_error(failed_models) ==
    DbtCompilationError(
        Text(IF Len(failed_models) = 1
             THEN <<"SQL compilation failed for model '", failed_models[1].name, "'">>
             ELSE <<"SQL compilation failed for ", ToString(Len(failed_models)),
                    " models: ">>
                  \o Join([i \in 1..Len(failed_models) |-> failed_models[i].name],
                          ", ")),
        failed_models)

\* The details are set only for a truthy config_type and config_path.
DbtConfigurationError(message, config_type, config_path, original_exception) ==
    [DbtFastApiError("DbtConfigurationError", message, HTTP_400_BAD_REQUEST,
                     original_exception)
     EXCEPT !.config_type = config_type,
            !.config_path = config_path]

DbtInternalError(message, original_exception) ==
    [DbtFastApiError("DbtInternalError", message, HTTP_500_INTERNAL_SERVER_ERROR,
                     original_exception)
     EXCEPT !.suggestion = Some(<<"This may be a temporary issue. Please try again or contact support if the problem persists.">>)]

(***************************************************************************)
(* Exceptions raised by dbt and their translation                          *)
(* (translate_dbt_exception).  An exception is its class and str(e).       *)
(***************************************************************************)
\* The classes translate_dbt_exception imports from dbt.exceptions, one more
\* dbt class, and one class that is not dbt's.
ExceptionClasses ==
    {"ParsingError", "DbtProjectError", "DbtProfileError", "DbtRuntimeError",
     "CompilationError", "ValueError"}

\* The classes of the table that an exception of class cls is an instance
\* of: in dbt.exceptions ParsingError, DbtProjectError, DbtProfileError and
\* CompilationError all derive from DbtRuntimeError.
Bases(cls) ==
    CASE cls = "ParsingError" -> {"ParsingError", "DbtRuntimeError"}
      [] cls = "DbtProjectError" -> {"DbtProjectError", "DbtRuntimeError"}
      [] cls = "DbtProfileError" -> {"DbtProfileError", "DbtRuntimeError"}
      [] cls = "CompilationError" -> {"CompilationError", "DbtRuntimeError"}
      [] cls = "DbtRuntimeError" -> {"DbtRuntimeError"}
      [] OTHER -> {cls}

isinstance(e, cls) == cls \in Bases(e.cls)

\* str(e) of the exceptions dbt raises: the texts a failed result carries
\* and one more text without the marker.
RaisedTexts ==
    ExceptionTexts
    \cup {<<<<"Compilation Error">>, <<"relation secret_table not found">>>>}

DbtExceptions == [cls : ExceptionClasses, text : RaisedTexts]

\* The context execute_dbt_command hands to translate_dbt_exception.
ManagerContext(mgr) ==
    [target |-> Some(mgr.target),
     command |-> Some(mgr.dbt_cli_args),
     profiles_dir |-> Some(mgr.profiles_yaml_dir),
     project_dir |-> Some(mgr.dbt_project_yaml_dir)]

\* The context execute_unsafe_dbt_command hands over: the command only.
UnsafeContext(cli_command) ==
    [target |-> NoneVal,
     command |-> Some(cli_command),
     profiles_dir |-> NoneVal,
     project_dir |-> NoneVal]

\* A str detail is kept when it is truthy.
TruthyStr(v) == IF v # NoneVal /\ v[1] # "" THEN v ELSE NoneVal

\* Variant: the DbtRuntimeError row is checked before the rows of its
\* subclasses.
translate_dbt_exception_runtime_first(dbt_exception, context) ==
    LET error_message == Flatten(dbt_exception.text)
        target_error ==
            DbtTargetError(IF context.target # NoneVal
                           THEN context.target[1] ELSE "unknown",
                           FindTargets(error_message),
                           Some(dbt_exception))
    IN IF isinstance(dbt_exception, "DbtRuntimeError")
       THEN IF Contains(error_message, TargetNotFoundMarker)
            THEN target_error
            ELSE DbtExecutionError(
                     Text(<<"dbt execution failed: ">> \o error_message),
                     context.command, Some(dbt_exception))
       ELSE IF isinstance(dbt_exception, "ParsingError")
       THEN DbtConfigurationError(
                Text(<<"Configuration parsing error: ">> \o error_message),
                Some("parsing"), NoneVal, Some(dbt_exception))
       ELSE IF isinstance(dbt_exception, "DbtProjectError")
       THEN DbtConfigurationError(
                Text(<<"dbt project configuration error: ">> \o error_message),
                Some("dbt_project.yml"), TruthyStr(context.project_dir),
                Some(dbt_exception))
       ELSE IF isinstance(dbt_exception, "DbtProfileError")
       THEN IF Contains(error_message, TargetNotFoundMarker)
            THEN target_error
            ELSE DbtConfigurationError(
                     Text(<<"dbt profile configuration error: ">> \o error_message),
                     Some("profiles.yml"), TruthyStr(context.profiles_dir),
                     Some(dbt_exception))
       ELSE DbtInternalError(Text(<<"Unexpected dbt error: ">> \o error_message),
                             Some(dbt_exception))

translate_dbt_exception(dbt_exception, context) ==
    LET error_message == Flatten(dbt_exception.text)
        target_error ==
            DbtTargetError(IF context.target # NoneVal
                           THEN context.target[1] ELSE "unknown",
                           FindTargets(error_message),
                           Some(dbt_exception))
    IN IF isinstance(dbt_exception, "ParsingError")
       THEN DbtConfigurationError(
                Text(<<"Configuration parsing error: ">> \o error_message),
                Some("parsing"), NoneVal, Some(dbt_exception))
       ELSE IF isinstance(dbt_exception, "DbtProjectError")
       THEN DbtConfigurationError(
                Text(<<"dbt project configuration error: ">> \o error_message),
                Some("dbt_project.yml"), TruthyStr(context.project_dir),
                Some(dbt_exception))
       ELSE IF isinstance(dbt_exception, "DbtProfileError")
       THEN IF Contains(error_message, TargetNotFoundMarker)
            THEN target_error
            ELSE DbtConfigurationError(
                     Text(<<"dbt profile configuration error: ">> \o error_message),
                     Some("profiles.yml"), TruthyStr(context.profiles_dir),
                     Some(dbt_exception))
       ELSE IF isinstance(dbt_exception, "DbtRuntimeError")
       THEN IF Contains(error_message, TargetNotFoundMarker)
            THEN target_error
            ELSE DbtExecutionError(
                     Text(<<"dbt execution failed: ">> \o error_message),
                     context.command, Some(dbt_exception))
       ELSE DbtInternalError(Text(<<"Unexpected dbt error: ">> \o error_message),
                             Some(dbt_exception))

(***************************************************************************)
(* Exception handlers (exception_handlers.py) and HTTP responses.  A JSON  *)
(* object is a function from its keys.                                     *)
(***************************************************************************)
DetailKeys ==
    {"field", "provided_target", "valid_targets", "failed_models", "command",
     "config_type", "config_path", "suggestion"}

\* exc.details: the details the constructors have set.
details(exc) ==
    [k \in {key \in DetailKeys : exc[key] # NoneVal} |-> exc[k][1]]

\* {"error": type(exc).__name__, "message": exc.message, **exc.details}
dbt_error_handler(exc) ==
    [status_code |-> exc.http_status_code,
     content |-> [k \in {"error", "message"} \cup DOMAIN details(exc) |->
                    IF k \in DOMAIN details(exc) THEN details(exc)[k]
                    ELSE IF k = "error" THEN exc.kind
                    ELSE exc.message]]

generic_exception_handler ==
    [status_code |-> 500,
     content |-> [error |-> "InternalServerError",
                  message |-> Text(<<"An unexpected error occurred">>),
                  details |-> [suggestion |-> <<"Please try again. If the problem persists, contact support.">>]]]

HTTP_422_UNPROCESSABLE_ENTITY == 422

\* The response to a request whose model validator raised ValueError.
RequestValidationError ==
    [status_code |-> HTTP_422_UNPROCESSABLE_ENTITY,
     content |-> [detail |-> <<"Value error">>]]

(***************************************************************************)
(* Outcome classifier (DbtManager._validate_dbt_result).                   *)
(***************************************************************************)
\* Variant: the last matching line instead of the first.
RECURSIVE LastSyntaxError(_)
LastSyntaxError(lines) ==
    IF lines = <<>> THEN NoneVal
    ELSE IF Contains(lines[Len(lines)], "Syntax error:")
            \/ Contains(lines[Len(lines)], "Error:")
         THEN Some(Strip(lines[Len(lines)]))
         ELSE LastSyntaxError(SubSeq(lines, 1, Len(lines) - 1))

\* The first line that contains "Syntax error:" or "Error:", stripped;
\* None when no line does.
RECURSIVE FirstSyntaxError(_)
FirstSyntaxError(lines) ==
    IF lines = <<>> THEN NoneVal
    ELSE IF Contains(Head(lines), "Syntax error:") \/ Contains(Head(lines), "Error:")
         THEN Some(Strip(Head(lines)))
         ELSE FirstSyntaxError(Tail(lines))

UnknownCompilationMessage == <<<<"Unknown compination message">>>>

ModelInfo(run_result) ==
    [name |-> run_result.node.name,
     path |-> run_result.node.original_file_path,
     error_message |-> IF MessageTruthy(run_result.message)
                       THEN run_result.message[1]
                       ELSE UnknownCompilationMessage,
     syntax_error |-> IF MessageTruthy(run_result.message)
                      THEN FirstSyntaxError(run_result.message[1])
                      ELSE NoneVal]

\* The run results the loop of _extract_failed_models keeps.
IsFailedModel(run_result) ==
    run_result.status # NoneVal /\ run_result.status[1] = "error"

RECURSIVE FailedModelsOf(_)
FailedModelsOf(rs) ==
    IF rs = <<>> THEN <<>>
    ELSE (IF IsFailedModel(Head(rs)) THEN <<ModelInfo(Head(rs))>> ELSE <<>>)
         \o FailedModelsOf(Tail(rs))

_extract_failed_models(r) ==
    IF ~HasResults(r.result) THEN <<>> ELSE FailedModelsOf(r.result.records)

\* Variant: a successful result without records is an error (no nodes
\* matched the selection).
_validate_dbt_result_empty_is_error(mgr, r) ==
    IF r.success
    THEN IF r.result.records = <<>>
         THEN Some(DbtExecutionError(ListValue(mgr.dbt_cli_args), NoneVal, NoneVal))
         ELSE NoneVal
    ELSE IF r.exception # NoneVal /\ HasTargetMarker(r.exception[1])
    THEN Some(DbtTargetError(mgr.target,
                             FindTargets(Flatten(r.exception[1])), NoneVal))
    ELSE IF /\ mgr.verb # "list"
            /\ PayloadTruthy(r.result)
            /\ _extract_failed_models(r) # <<>>
    THEN Some(create_compilation_error(_extract_failed_models(r)))
    ELSE IF mgr.verb \in {"test", "build"} /\ HasResults(r.result)
    THEN NoneVal
    ELSE Some(DbtExecutionError(ListValue(mgr.dbt_cli_args), NoneVal, NoneVal))

\* Variant: the compilation check runs before the target check.
_validate_dbt_result_compile_first(mgr, r) ==
    IF r.success THEN NoneVal
    ELSE IF /\ mgr.verb # "list"
            /\ PayloadTruthy(r.result)
            /\ _extract_failed_models(r) # <<>>
    THEN Some(create_compilation_error(_extract_failed_models(r)))
    ELSE IF r.exception # NoneVal /\ HasTargetMarker(r.exception[1])
    THEN Some(DbtTargetError(mgr.target,
                             FindTargets(Flatten(r.exception[1])), NoneVal))
    ELSE IF mgr.verb \in {"test", "build"} /\ HasResults(r.result)
    THEN NoneVal
    ELSE Some(DbtExecutionError(ListValue(mgr.dbt_cli_args), NoneVal, NoneVal))

\* Variant: the early return for tests applies to every verb.
_validate_dbt_result_return_all(mgr, r) ==
    IF r.success THEN NoneVal
    ELSE IF r.exception # NoneVal /\ HasTargetMarker(r.exception[1])
    THEN Some(DbtTargetError(mgr.target,
                             FindTargets(Flatten(r.exception[1])), NoneVal))
    ELSE IF /\ mgr.verb # "list"
            /\ PayloadTruthy(r.result)
            /\ _extract_failed_models(r) # <<>>
    THEN Some(create_compilation_error(_extract_failed_models(r)))
    ELSE IF HasResults(r.result)
    THEN NoneVal
    ELSE Some(DbtExecutionError(ListValue(mgr.dbt_cli_args), NoneVal, NoneVal))

\* None when the result passes; otherwise the error raised.
_validate_dbt_result(mgr, r) ==
    IF r.success THEN NoneVal
    ELSE IF r.exception # NoneVal /\ HasTargetMarker(r.exception[1])
    THEN Some(DbtTargetError(mgr.target,
                             FindTargets(Flatten(r.exception[1])), NoneVal))
    ELSE IF /\ mgr.verb # "list"
            /\ PayloadTruthy(r.result)
            /\ _extract_failed_models(r) # <<>>
    THEN Some(create_compilation_error(_extract_failed_models(r)))
    ELSE IF mgr.verb \in {"test", "build"} /\ HasResults(r.result)
    THEN NoneVal
    ELSE Some(DbtExecutionError(ListValue(mgr.dbt_cli_args), NoneVal, NoneVal))

(***************************************************************************)
(* Result normaliser (DbtManager.get_nodes_from_result, get_test_summary). *)
(***************************************************************************)
\* status_mapping.get(dbt_status, ResponseTestStatus.ERROR)
ApiStatus(dbt_status) ==
    CASE dbt_status = Some("pass") -> "pass"
      [] dbt_status = Some("error") -> "error"
      [] dbt_status = Some("fail") -> "fail"
      [] dbt_status = Some("skipped") -> "skip"
      [] OTHER -> "error"

\* None when the run result has no status attribute.
_extract_test_result_from_run_result(run_result) ==
    IF run_result.status = NoneVal THEN NoneVal
    ELSE Some([unique_id |-> run_result.node.unique_id,
               name |-> run_result.node.name,
               status |-> ApiStatus(run_result.status),
               execution_time |-> run_result.execution_time,
               message |-> IF ApiStatus(run_result.status) \in {"fail", "error"}
                           THEN run_result.message
                           ELSE NoneVal,
               failures |-> IF ApiStatus(run_result.status) = "fail"
                            THEN run_result.failures
                            ELSE NoneVal])

\* ".".join(node.fqn)
JoinDots(parts) == Join(parts, ".")

NodeFromListItem(item) ==
    [unique_id |-> item.node.unique_id,
     fqn |-> Some(<<item.node.alias>>),
     resource_type |-> item.node.resource_type,
     depends_on |-> item.node.depends_on,
     test_result |-> NoneVal]

NodeFromRunResult(mgr, run_result) ==
    [unique_id |-> run_result.node.unique_id,
     fqn |-> IF run_result.node.fqn # <<>>
             THEN Some(JoinDots(run_result.node.fqn)) ELSE NoneVal,
     resource_type |-> run_result.node.resource_type,
     depends_on |-> run_result.node.depends_on,
     test_result |-> IF /\ mgr.verb \in {"test", "build"}
                        /\ run_result.node.resource_type = "test"
                     THEN _extract_test_result_from_run_result(run_result)
                     ELSE NoneVal]

RECURSIVE Reverse(_)
Reverse(xs) == IF xs = <<>> THEN <<>> ELSE Append(Reverse(Tail(xs)), Head(xs))

\* Variant: the nodes are prepended instead of appended.
get_nodes_from_result_prepend(mgr, r) ==
    IF ~PayloadTruthy(r.result) THEN [raised |-> FALSE, nodes |-> <<>>]
    ELSE IF r.result.shape = "list"
    THEN IF \E i \in 1..Len(r.result.records) : ~r.result.records[i].decodable
         THEN [raised |-> TRUE, nodes |-> <<>>]
         ELSE [raised |-> FALSE,
               nodes |-> Reverse([i \in 1..Len(r.result.records) |->
                                     NodeFromListItem(r.result.records[i])])]
    ELSE [raised |-> FALSE,
          nodes |-> Reverse([i \in 1..Len(r.result.records) |->
                                NodeFromRunResult(mgr, r.result.records[i])])]

\* [raised, nodes]: raised when json.loads fails on an item of the list.
get_nodes_from_result(mgr, r) ==
    IF ~PayloadTruthy(r.result) THEN [raised |-> FALSE, nodes |-> <<>>]
    ELSE IF r.result.shape = "list"
    THEN IF \E i \in 1..Len(r.result.records) : ~r.result.records[i].decodable
         THEN [raised |-> TRUE, nodes |-> <<>>]
         ELSE [raised |-> FALSE,
               nodes |-> [i \in 1..Len(r.result.records) |->
                             NodeFromListItem(r.result.records[i])]]
    ELSE [raised |-> FALSE,
          nodes |-> [i \in 1..Len(r.result.records) |->
                        NodeFromRunResult(mgr, r.result.records[i])]]

EmptySummary ==
    [total |-> 0, passed |-> 0, warned |-> 0, failed |-> 0, errored |-> 0,
     skipped |-> 0]

\* Variant: an unrecognized status counts as passed.
SummaryBucket_default_passed(status) ==
    CASE status = Some("pass") -> "passed"
      [] status = Some("warn") -> "warned"
      [] status = Some("skipped") -> "skipped"
      [] status = Some("fail") -> "failed"
      [] status = Some("error") -> "errored"
      [] OTHER -> "passed"

\* The bucket the match statement increments for a status.
SummaryBucket(status) ==
    CASE status = Some("pass") -> "passed"
      [] status = Some("warn") -> "warned"
      [] status = Some("skipped") -> "skipped"
      [] status = Some("fail") -> "failed"
      [] status = Some("error") -> "errored"
      [] OTHER -> "errored"

\* Variant: the match statement has no default case.
CountRunResult_no_default(summary, run_result) ==
    IF run_result.node.resource_type = "test"
    THEN IF run_result.status \in {Some("pass"), Some("warn"), Some("skipped"),
                                   Some("fail"), Some("error")}
         THEN [summary EXCEPT !.total = @ + 1,
                              ![SummaryBucket(run_result.status)] = @ + 1]
         ELSE [summary EXCEPT !.total = @ + 1]
    ELSE summary

\* One iteration of the loop over result.result.results.
CountRunResult(summary, run_result) ==
    IF run_result.node.resource_type = "test"
    THEN [summary EXCEPT !.total = @ + 1,
                         ![SummaryBucket(run_result.status)] = @ + 1]
    ELSE summary

RECURSIVE CountAll(_, _)
CountAll(summary, rs) ==
    IF rs = <<>> THEN summary
    ELSE CountAll(CountRunResult(summary, Head(rs)), Tail(rs))

\* None for the verbs that run no tests.
get_test_summary(mgr, r) ==
    IF mgr.verb \notin {"test", "build"} THEN NoneVal
    ELSE IF ~HasResults(r.result) THEN Some(EmptySummary)
    ELSE Some(CountAll(EmptySummary, r.result.records))

(***************************************************************************)
(* The routes (routes/run.py, test.py, build.py, list.py, compile.py):     *)
(* what run_dbt does after the extraction.  An exception that is not a     *)
(* typed error reaches generic_exception_handler.                          *)
(***************************************************************************)
\* The attributes of a DbtManager: what __init__ assigns and the methods.
DbtManagerAttributes ==
    {"verb", "target", "select_args", "exclude_args", "selector_args",
     "profiles_yaml_dir", "dbt_project_yaml_dir", "dbt_cli_args", "runner",
     "execute_dbt_command", "async_execute_dbt_command",
     "execute_unsafe_dbt_command", "async_execute_unsafe_dbt_command",
     "get_nodes_from_result", "get_test_summary", "_generate_dbt_args",
     "_validate_dbt_result", "_get_selection_criteria_string",
     "_extract_failed_models", "_extract_test_result_from_run_result"}

\* The fields of DbtTestRequest and DbtBuildRequest.
DbtTestRequestFields ==
    {"target", "select_args", "exclude_args", "selector_args", "store_failures",
     "pass_on_test_failures"}

DbtBuildRequestFields ==
    DbtTestRequestFields \cup {"full_refresh", "fail_fast"}

\* The fields of DbtTestBuildMetadata.
DbtTestBuildMetadataFields ==
    {"command", "dbt_command", "target", "nodes_processed", "selection_criteria",
     "has_test_failures", "has_test_errors"}

\* _get_selection_criteria_string
SelectionCriteria(mgr) ==
    LET part(label, args) ==
            IF args # <<>> THEN <<<<label>> \o Join(args, Lit(" "))>> ELSE <<>>
        criteria_parts ==
            part("select_args: ", mgr.select_args)
            \o part("exclude_args: ", mgr.exclude_args)
            \o part("selector_args: ", mgr.selector_args)
    IN IF criteria_parts # <<>> THEN Join(criteria_parts, ", ")
       ELSE <<"no selection criteria">>

HTTP_200_OK == 200

\* The body of the HTTP 200 response of a route.
RouteResponse(mgr, r, ns, summary) ==
    [status_code |-> HTTP_200_OK,
     content |-> [success |-> r.success,
                  nodes |-> ns,
                  metadata |-> [command |-> mgr.verb,
                                dbt_command |-> Join(mgr.dbt_cli_args, Lit(" ")),
                                target |-> mgr.target,
                                nodes_processed |-> Len(ns),
                                selection_criteria |-> SelectionCriteria(mgr)],
                  test_summary |-> summary]]

\* HTTPException(422) of the test and build routes.
TestExecutionFailed(mgr, summary, failed_tests, passed_tests) ==
    [status_code |-> HTTP_422_UNPROCESSABLE_ENTITY,
     content |-> [detail |-> [error |-> "TestExecutionFailed",
                              test_summary |-> summary,
                              failed_tests |-> failed_tests,
                              passed_tests |-> passed_tests]]]

\* p: the request, mgr: the manager, r: the returned result, extracted: what
\* get_nodes_from_result gave, summary: what get_test_summary gave.
run_dbt(p, mgr, r, extracted, summary) ==
    LET strict ==
            IF mgr.verb = "test"
            THEN [raised |-> "fail_on_test_failures" \notin DbtTestRequestFields,
                  value |-> FALSE]
            ELSE [raised |-> "pass_on_test_failures" \notin DbtBuildRequestFields,
                  value |-> ~p.pass_on_test_failures]
        has_test_failures == summary[1].failed > 0
    IN \* json.loads raised in get_nodes_from_result
       IF extracted.raised THEN generic_exception_handler
       \* metadata: dbt_manager.get_selection_criteria_string()
       ELSE IF "get_selection_criteria_string" \notin DbtManagerAttributes
       THEN generic_exception_handler
       ELSE IF mgr.verb \notin {"test", "build"}
       THEN RouteResponse(mgr, r, extracted.nodes, summary)
       \* the flag read from the payload
       ELSE IF strict.raised THEN generic_exception_handler
       ELSE IF ~strict.value
       THEN RouteResponse(mgr, r, extracted.nodes, summary)
       \* "metadata.has_test_failures or metadata.has_test_error"
       ELSE IF ~has_test_failures
       THEN IF "has_test_error" \notin DbtTestBuildMetadataFields
            THEN generic_exception_handler
            ELSE RouteResponse(mgr, r, extracted.nodes, summary)
       \* "node.test_result" of a node, which is a dict
       ELSE IF extracted.nodes # <<>> THEN generic_exception_handler
       ELSE TestExecutionFailed(mgr, summary[1], <<>>, <<>>)

(***************************************************************************)
(* The life of one request: the request is parsed and validated, the route *)
(* builds a DbtManager, execute_dbt_command invokes dbt once and           *)
(* classifies the result, and the route extracts nodes and test summary.   *)
(***************************************************************************)
\* Results of an invocation with every payload shape, without messages.
ExecResults ==
    DbtRunnerResults(
        {NoPayload}
        \cup {ListPayload(s) : s \in SeqsUpTo(ListItems, MaxRecords)}
        \cup {ResultsPayload(s) :
                s \in SeqsUpTo(RunResults(Opt(Statuses), ResourceTypes, {"a"},
                                          {NoneVal}),
                               MaxRecords)})

\* Results without records.
PlainResults ==
    [success : BOOLEAN, exception : {NoneVal},
     result : {NoPayload, ResultsPayload(<<>>)}]

\* Results of run results that failed or succeeded, with messages.
MessageResults ==
    [success : BOOLEAN, exception : {NoneVal},
     result : {ResultsPayload(s) :
                 s \in SeqsUpTo(RunResults({Some("error")}, {"model"}, {"a", "b"},
                                           Opt(Messages(MaxLines)))
                                \cup RunResults({Some("success")}, {"model"}, {"a"},
                                                {NoneVal}),
                                MaxRecords)}]

\* The unique ids a node depends on.
DependsOn == {<<>>, <<"model.proj.c">>}

\* Results whose records differ in name and in upstream dependencies.
NodeResults ==
    [success : BOOLEAN, exception : {NoneVal},
     result : {NoPayload}
              \cup {ListPayload(s) :
                      s \in SeqsUpTo({[decodable |-> d,
                                       node |-> [NodeOf(nm, "model")
                                                 EXCEPT !.depends_on = deps]] :
                                         d \in BOOLEAN, nm \in {"a", "b"},
                                         deps \in DependsOn},
                                     MaxRecords)}
              \cup {ResultsPayload(s) :
                      s \in SeqsUpTo({[rr EXCEPT !.node.depends_on = deps] :
                                         rr \in RunResults({Some("pass")},
                                                           ResourceTypes,
                                                           {"a", "b"}, {NoneVal}),
                                         deps \in DependsOn},
                                     MaxRecords)}]

\* Failed results whose exception is a target-not-found text.
TargetResults ==
    [success : {FALSE}, exception : {Some(t) : t \in TargetTexts},
     result : {NoPayload}]

\* Results of tests and models that passed, failed or errored.
TestResults ==
    [success : BOOLEAN, exception : {NoneVal},
     result : {ResultsPayload(s) :
                 s \in SeqsUpTo(RunResults({Some("pass"), Some("fail"), Some("error")},
                                           {"test"}, {"a"}, {NoneVal})
                                \cup RunResults({Some("success")}, {"model"}, {"a"},
                                                {NoneVal}),
                                MaxRecords)}]

\* No request is being served.
NoRequest ==
    /\ pc = "idle"
    /\ payload = NoneVal
    /\ manager = NoneVal
    /\ result = NoneVal
    /\ outcome = NoneVal
    /\ nodes = NoneVal
    /\ test_summary = NoneVal
    /\ invocations = 0
    /\ runner_args = NoneVal
    /\ raised_exception = NoneVal
    /\ response = NoneVal
    /\ validated = <<>>

\* The routes of the two applications: whether the handler is declared
\* async def, whether it starts a dbt invocation and whether it takes the
\* configuration of get_dbt_config.
Route(path, is_async, invokes, config) ==
    [path |-> path, is_async |-> is_async, invokes |-> invokes, config |-> config]

DbtFastApiRoutes ==
    {Route(verb, FALSE, TRUE, TRUE) : verb \in Verbs}
    \cup {Route("/health", TRUE, FALSE, FALSE),
          Route("/readiness", TRUE, FALSE, TRUE)}

DbtFastApiBqRoutes ==
    {Route(verb, TRUE, TRUE, FALSE) : verb \in {"run", "test", "build"}}
    \cup {Route("/", FALSE, FALSE, FALSE)}

Applications == {"dbt_fastapi", "dbt_fastapi_bq"}

RoutesOf(app) == IF app = "dbt_fastapi" THEN DbtFastApiRoutes ELSE DbtFastApiBqRoutes

Handlers == 1..MaxHandlers

IdleHandler ==
    [pc |-> "idle", route |-> NoneVal, config |-> NoneVal, dirs |-> NoneVal,
     status_code |-> NoneVal]

\* No request is being handled by the server of application app.
IdleServer(app) ==
    /\ application = app
    /\ event_loop = 0
    /\ handlers = [h \in Handlers |-> IdleHandler]

\* No call of config.py is in flight.
IdleGetter == [pc |-> "idle", local |-> NoneVal]

IdleWriter == [pc |-> "idle", op |-> "none", config |-> NoneVal]

\* The application after its lifespan startup: initialize_dbt_config has
\* stored the first DbtConfig object and cleared the cache.
Init ==
    /\ NoRequest
    /\ _config = Some(1)
    /\ get_dbt_config_cache = NoneVal
    /\ heap = <<StartupConfig>>
    /\ getter = IdleGetter
    /\ writer = IdleWriter
    /\ calls = <<>>
    /\ IdleServer("dbt_fastapi")

\* config.py after its import: nothing is initialized.
InitConfig ==
    /\ NoRequest
    /\ _config = NoneVal
    /\ get_dbt_config_cache = NoneVal
    /\ heap = <<>>
    /\ getter = IdleGetter
    /\ writer = IdleWriter
    /\ calls = <<>>
    /\ IdleServer("dbt_fastapi")

\* A server after its startup, of either application; the lifespan of
\* dbt_fastapi has initialized the configuration from its environment.
InitServer ==
    /\ NoRequest
    /\ _config = Some(1)
    /\ get_dbt_config_cache = NoneVal
    /\ \E env \in Environments :
         /\ ~discover_paths(DbtConfig(env), env.found).raised
         /\ validate_configuration(discover_paths(DbtConfig(env), env.found).config,
                                   env.exists)
         /\ heap = <<discover_paths(DbtConfig(env), env.found).config>>
    /\ getter = IdleGetter
    /\ writer = IdleWriter
    /\ calls = <<>>
    /\ \E a \in Applications : IdleServer(a)

\* A request arrives at the route of its verb and pydantic validates it.
Receive(requests) ==
    /\ pc = "idle"
    /\ \E p \in requests :
        /\ payload' = Some(p)
        /\ pc' = IF validate_mutually_exclusive_args(p) THEN "validated" ELSE "rejected"
    /\ UNCHANGED <<manager, result, outcome, nodes, test_summary, invocations,
                   runner_args, raised_exception, response>>
    /\ UNCHANGED <<validated, othervars>>

\* The route constructs the manager from the payload and the configuration.
Construct ==
    /\ pc = "validated"
    /\ payload[1].verb \in Verbs
    /\ manager' = Some(DbtManager(payload[1].verb,
                                  TargetOrDefault(payload[1].target),
                                  dbt_profiles_dir, dbt_project_dir,
                                  payload[1].select_args,
                                  payload[1].exclude_args,
                                  payload[1].selector_args))
    /\ pc' = "constructed"
    /\ UNCHANGED <<payload, result, outcome, nodes, test_summary, invocations,
                   runner_args, raised_exception, response>>
    /\ UNCHANGED <<validated, othervars>>

\* What runner.invoke does: it returns a result or raises an exception.
InvokeOutcomes(results, exceptions) ==
    {[raised |-> FALSE, value |-> r] : r \in results}
    \cup {[raised |-> TRUE, value |-> e] : e \in exceptions}

\* Variant: a failed result is invoked a second time.
execute_dbt_command_retry(results, exceptions) ==
    /\ pc = "constructed"
    /\ runner_args' = Some(manager[1].dbt_cli_args)
    /\ \E o \in InvokeOutcomes(results, exceptions) :
        IF o.raised
        THEN /\ result' = NoneVal
             /\ raised_exception' = Some(o.value)
             /\ outcome' = Some(translate_dbt_exception(o.value,
                                                        ManagerContext(manager[1])))
             /\ pc' = "raised"
             /\ invocations' = invocations + 1
        ELSE /\ result' = Some(o.value)
             /\ raised_exception' = NoneVal
             /\ outcome' = _validate_dbt_result(manager[1], o.value)
             /\ pc' = IF _validate_dbt_result(manager[1], o.value) = NoneVal
                      THEN "returned" ELSE "raised"
             /\ invocations' = IF o.value.success THEN invocations + 1
                               ELSE invocations + 2
    /\ UNCHANGED <<payload, manager, nodes, test_summary, response>>
    /\ UNCHANGED <<validated, othervars>>

\* DbtManager.execute_dbt_command: one invocation; a result is classified,
\* an exception that is not a typed error is translated.
execute_dbt_command(results, exceptions) ==
    /\ pc = "constructed"
    /\ runner_args' = Some(manager[1].dbt_cli_args)
    /\ \E o \in InvokeOutcomes(results, exceptions) :
        IF o.raised
        THEN /\ result' = NoneVal
             /\ raised_exception' = Some(o.value)
             /\ outcome' = Some(translate_dbt_exception(o.value,
                                                        ManagerContext(manager[1])))
             /\ pc' = "raised"
             /\ invocations' = invocations + 1
        ELSE /\ result' = Some(o.value)
             /\ raised_exception' = NoneVal
             /\ outcome' = _validate_dbt_result(manager[1], o.value)
             /\ pc' = IF _validate_dbt_result(manager[1], o.value) = NoneVal
                      THEN "returned" ELSE "raised"
             /\ invocations' = invocations + 1
    /\ UNCHANGED <<payload, manager, nodes, test_summary, response>>
    /\ UNCHANGED <<validated, othervars>>

\* Variant: the validation consumes the exception of the result it reads.
_validate_dbt_result_effect_consuming(mgr, r) ==
    [manager |-> mgr, result |-> [r EXCEPT !.exception = NoneVal]]

\* What a call of _validate_dbt_result leaves behind: it reads self and the
\* result and assigns to neither.
_validate_dbt_result_effect(mgr, r) ==
    [manager |-> mgr, result |-> r]

\* The result that execute_dbt_command classified is validated once more
\* with the same manager.
Revalidate ==
    /\ pc \in {"returned", "raised"}
    /\ result # NoneVal
    /\ Len(validated) < MaxValidations
    /\ validated' = Append(validated, _validate_dbt_result(manager[1], result[1]))
    /\ manager' = Some(_validate_dbt_result_effect(manager[1], result[1]).manager)
    /\ result' = Some(_validate_dbt_result_effect(manager[1], result[1]).result)
    /\ UNCHANGED <<pc, payload, outcome, nodes, test_summary, invocations,
                   runner_args, raised_exception, response>>
    /\ UNCHANGED othervars

\* The route extracts the nodes and the test summary of a returned result.
ExtractResults ==
    /\ pc = "returned"
    /\ nodes' = Some(get_nodes_from_result(manager[1], result[1]))
    /\ test_summary' = get_test_summary(manager[1], result[1])
    /\ pc' = "extracted"
    /\ UNCHANGED <<payload, manager, result, outcome, invocations,
                   runner_args, raised_exception, response>>
    /\ UNCHANGED <<validated, othervars>>

\* The response leaves: of FastAPI for a request that failed validation, of
\* dbt_error_handler for a typed error, of the route otherwise.
Respond ==
    /\ pc \in {"rejected", "raised", "extracted"}
    /\ payload[1].verb \in Verbs
    /\ response' =
         Some(IF pc = "rejected" THEN RequestValidationError
              ELSE IF pc = "raised" THEN dbt_error_handler(outcome[1])
              ELSE run_dbt(payload[1], manager[1], result[1], nodes[1], test_summary))
    /\ pc' = "responded"
    /\ UNCHANGED <<payload, manager, result, outcome, nodes, test_summary,
                   invocations, runner_args, raised_exception>>
    /\ UNCHANGED <<validated, othervars>>

\* An unsafe request arrives and pydantic validates it.
ReceiveUnsafe ==
    /\ pc = "idle"
    /\ \E p \in DbtUnsafeRequest :
        /\ payload' = Some(p)
        /\ pc' = IF sanitize_input(p.unsafe_dbt_cli_command)
                 THEN "validated" ELSE "rejected"
    /\ UNCHANGED <<manager, result, outcome, nodes, test_summary, invocations,
                   runner_args, raised_exception, response>>
    /\ UNCHANGED <<validated, othervars>>

\* The unsafe route splits the command; execute_unsafe_dbt_command drops
\* the leading dbt, invokes once and raises for a failed result.
execute_unsafe_dbt_command(results, exceptions) ==
    /\ pc = "validated"
    /\ payload[1].verb = "unsafe"
    /\ LET shlex_list_cli == shlex_split(payload[1].unsafe_dbt_cli_command).tokens
           cli_command == IF shlex_list_cli[1] = <<"dbt">>
                          THEN Tail(shlex_list_cli) ELSE shlex_list_cli
       IN /\ runner_args' = Some(cli_command)
          /\ \E o \in InvokeOutcomes(results, exceptions) :
              IF o.raised
              THEN /\ result' = NoneVal
                   /\ raised_exception' = Some(o.value)
                   /\ outcome' = Some(translate_dbt_exception(
                                          o.value, UnsafeContext(cli_command)))
                   /\ pc' = "raised"
              ELSE /\ result' = Some(o.value)
                   /\ raised_exception' = NoneVal
                   /\ outcome' = IF o.value.success THEN NoneVal
                                 ELSE Some(DbtExecutionError(ListValue(cli_command),
                                                             NoneVal, NoneVal))
                   /\ pc' = IF o.value.success THEN "returned" ELSE "raised"
    /\ invocations' = invocations + 1
    /\ UNCHANGED <<payload, manager, nodes, test_summary, response>>
    /\ UNCHANGED <<validated, othervars>>

\* The response of the unsafe route.  DbtUnsafeResponse declares output as
\* str and is given the dbtRunnerResult: its validation fails, which is not a
\* typed error.
RespondUnsafe ==
    /\ pc \in {"rejected", "raised", "returned"}
    /\ payload[1].verb = "unsafe"
    /\ response' =
         Some(IF pc = "rejected" THEN RequestValidationError
              ELSE IF pc = "raised" THEN dbt_error_handler(outcome[1])
              ELSE generic_exception_handler)
    /\ pc' = "responded"
    /\ UNCHANGED <<payload, manager, result, outcome, nodes, test_summary,
                   invocations, runner_args, raised_exception>>
    /\ UNCHANGED <<validated, othervars>>

\* The request is over; its objects are dropped.
Finish ==
    /\ pc = "responded"
    /\ pc' = "idle"
    /\ payload' = NoneVal
    /\ manager' = NoneVal
    /\ result' = NoneVal
    /\ outcome' = NoneVal
    /\ nodes' = NoneVal
    /\ test_summary' = NoneVal
    /\ invocations' = 0
    /\ runner_args' = NoneVal
    /\ raised_exception' = NoneVal
    /\ response' = NoneVal
    /\ validated' = <<>>
    /\ UNCHANGED othervars

(***************************************************************************)
(* config.py: the global _config and the lru_cache of get_dbt_config.  A   *)
(* call is a sequence of steps, one per access to the global or the cache; *)
(* a sequential caller starts a call only when no other call is in flight. *)
(***************************************************************************)
Call(op, raised, value) == [op |-> op, raised |-> raised, value |-> value]

\* initialize_dbt_config up to validate_configuration: a new object is
\* built, discovered and validated; a failure raises before any assignment.
initialize_dbt_config_construct(sequential) ==
    /\ writer.pc = "idle"
    /\ sequential => getter.pc = "idle"
    /\ Len(calls) < MaxCalls
    /\ Len(heap) < MaxInstances
    /\ \E env \in Environments :
         LET discovered == discover_paths(DbtConfig(env), env.found)
         IN IF discovered.raised
               \/ ~validate_configuration(discovered.config, env.exists)
            THEN /\ calls' = Append(calls, Call("initialize", TRUE, NoneVal))
                 /\ UNCHANGED <<heap, writer>>
            ELSE /\ heap' = Append(heap, discovered.config)
                 /\ writer' = [pc |-> "assign", op |-> "initialize",
                               config |-> Some(Len(heap) + 1)]
                 /\ UNCHANGED calls
    /\ UNCHANGED <<_config, get_dbt_config_cache, getter, requestvars,
                   servervars>>

\* initialize_dbt_config: _config = config.
initialize_dbt_config_assign ==
    /\ writer.pc = "assign"
    /\ writer.op = "initialize"
    /\ _config' = writer.config
    /\ writer' = [writer EXCEPT !.pc = "clear"]
    /\ UNCHANGED <<get_dbt_config_cache, heap, getter, calls, requestvars,
                   servervars>>

\* Variant: initialize_dbt_config returns without clearing the cache.
initialize_dbt_config_keep_cache ==
    /\ writer.pc = "clear"
    /\ writer.op = "initialize"
    /\ calls' = Append(calls, Call("initialize", FALSE, writer.config))
    /\ writer' = IdleWriter
    /\ UNCHANGED <<_config, get_dbt_config_cache, heap, getter, requestvars,
                   servervars>>

\* initialize_dbt_config: get_dbt_config.cache_clear() and return config.
initialize_dbt_config_clear ==
    /\ writer.pc = "clear"
    /\ writer.op = "initialize"
    /\ get_dbt_config_cache' = NoneVal
    /\ calls' = Append(calls, Call("initialize", FALSE, writer.config))
    /\ writer' = IdleWriter
    /\ UNCHANGED <<_config, heap, getter, requestvars,
                   servervars>>

\* reset_dbt_config: _config = None.
reset_dbt_config_assign(sequential) ==
    /\ writer.pc = "idle"
    /\ sequential => getter.pc = "idle"
    /\ Len(calls) < MaxCalls
    /\ _config' = NoneVal
    /\ writer' = [pc |-> "clear", op |-> "reset", config |-> NoneVal]
    /\ UNCHANGED <<get_dbt_config_cache, heap, getter, calls, requestvars,
                   servervars>>

\* reset_dbt_config: get_dbt_config.cache_clear().
reset_dbt_config_clear ==
    /\ writer.pc = "clear"
    /\ writer.op = "reset"
    /\ get_dbt_config_cache' = NoneVal
    /\ calls' = Append(calls, Call("reset", FALSE, NoneVal))
    /\ writer' = IdleWriter
    /\ UNCHANGED <<_config, heap, getter, requestvars,
                   servervars>>

\* get_dbt_config, the lru_cache wrapper: a cached value is returned, a
\* miss calls the function.
get_dbt_config_lookup(sequential) ==
    /\ getter.pc = "idle"
    /\ sequential => writer.pc = "idle"
    /\ Len(calls) < MaxCalls
    /\ IF get_dbt_config_cache # NoneVal
       THEN /\ calls' = Append(calls, Call("get", FALSE, get_dbt_config_cache))
            /\ UNCHANGED getter
       ELSE /\ getter' = [pc |-> "call", local |-> NoneVal]
            /\ UNCHANGED calls
    /\ UNCHANGED <<_config, get_dbt_config_cache, heap, writer, requestvars,
                   servervars>>

\* get_dbt_config, the function: RuntimeError when _config is None (nothing
\* is cached), else the value of _config.
get_dbt_config_call ==
    /\ getter.pc = "call"
    /\ IF _config = NoneVal
       THEN /\ calls' = Append(calls, Call("get", TRUE, NoneVal))
            /\ getter' = IdleGetter
       ELSE /\ getter' = [pc |-> "store", local |-> _config]
            /\ UNCHANGED calls
    /\ UNCHANGED <<_config, get_dbt_config_cache, heap, writer, requestvars,
                   servervars>>

\* get_dbt_config, the lru_cache wrapper: the value the function returned
\* is stored in the cache and returned.
get_dbt_config_store ==
    /\ getter.pc = "store"
    /\ get_dbt_config_cache' = getter.local
    /\ calls' = Append(calls, Call("get", FALSE, getter.local))
    /\ getter' = IdleGetter
    /\ UNCHANGED <<_config, heap, writer, requestvars,
                   servervars>>

InitializeSequential == initialize_dbt_config_construct(TRUE)

ResetSequential == reset_dbt_config_assign(TRUE)

GetSequential == get_dbt_config_lookup(TRUE)

InitializeConcurrent == initialize_dbt_config_construct(FALSE)

ResetConcurrent == reset_dbt_config_assign(FALSE)

GetConcurrent == get_dbt_config_lookup(FALSE)

(***************************************************************************)
(* dbt_fastapi_bq: the executors that run dbt as a subprocess.             *)
(***************************************************************************)
AnsiCode == "<ansi escape>"

OutputAtoms ==
    {"does not match any enabled nodes", "Nothing to do", "Completed successfully",
     TargetNotFoundMarker, AnsiCode}

Outputs == SeqsUpTo(OutputAtoms, MaxOutputLen)

\* What subprocess.run finds when the command ends.
CompletedProcesses == [returncode : {0, 1}, stdout : Outputs, stderr : Outputs]

\* a or b, of two strings.
OrElse(a, b) == IF a # <<>> THEN a ELSE b

NotAnsiCode(atom) == atom # AnsiCode

\* strip_ansi_codes: the escape sequences are removed.
strip_ansi_codes(text) == SelectSeq(text, NotAnsiCode)

ModelSelectionDetected(stdout) ==
    \/ Contains(stdout, "does not match any enabled nodes")
    \/ Contains(stdout, "Nothing to do")

\* What an executor gives its route: the output, or an exception with a
\* status code and an error.
ExecutorReturns(output) ==
    [raised |-> FALSE, status_code |-> NoneVal, error |-> NoneVal, output |-> output]

ExecutorRaises(status_code, error, message) ==
    [raised |-> TRUE, status_code |-> Some(status_code), error |-> Some(error),
     output |-> message]

\* The try body of utils/dbt_utils.py and utils/dbt_executor.py: with
\* check=True a non-zero exit raises CalledProcessError; at exit 0 the
\* selection check raises inside the body: DbtRunException, or pydantic's
\* ValidationError when provided_model is None.
utils_try_body(proc, model) ==
    IF proc.returncode # 0 THEN "CalledProcessError"
    ELSE IF ModelSelectionDetected(proc.stdout)
    THEN IF model = NoneVal THEN "ValidationError" ELSE "DbtRunException"
    ELSE "returned"

\* execute_dbt_command of utils/dbt_utils.py and utils/dbt_executor.py: the
\* try body, then 'except subprocess.CalledProcessError' and, for whatever
\* else the body raised, 'except Exception'.
utils_execute_dbt_command(proc, model) ==
    LET body == utils_try_body(proc, model)
        error_str == OrElse(OrElse(proc.stderr, proc.stdout),
                            <<"No error message captured.">>)
    IN IF body = "returned" THEN ExecutorReturns(proc.stdout)
       ELSE IF body = "CalledProcessError"
       THEN IF Contains(error_str, TargetNotFoundMarker)
            THEN ExecutorRaises(HTTP_400_BAD_REQUEST, "Invalid dbt target", error_str)
            ELSE ExecutorRaises(HTTP_500_INTERNAL_SERVER_ERROR, "dbt command failed",
                                error_str)
       ELSE ExecutorRaises(HTTP_500_INTERNAL_SERVER_ERROR,
                           "Unexpected error during dbt exection", <<body>>)

\* DbtManager.execute_dbt_command of dbt_fastapi_bq/dbt_manager.py: the
\* selection check (_parse_dbt_command_stdout) is made after the try.
bq_execute_dbt_command(proc) ==
    IF proc.returncode # 0
    THEN LET output == OrElse(strip_ansi_codes(OrElse(proc.stderr, proc.stdout)),
                              <<"No error message captured.">>)
         IN IF Contains(output, TargetNotFoundMarker)
            THEN ExecutorRaises(HTTP_400_BAD_REQUEST, "Invalid dbt target", output)
            ELSE ExecutorRaises(HTTP_500_INTERNAL_SERVER_ERROR, "dbt command failed",
                                output)
    ELSE LET output == strip_ansi_codes(proc.stdout)
         IN IF ModelSelectionDetected(output)
            THEN ExecutorRaises(HTTP_400_BAD_REQUEST, "Invalid dbt model selection",
                                output)
            ELSE ExecutorReturns(output)

BqExecutors == {"utils/dbt_utils.py", "utils/dbt_executor.py", "dbt_manager.py"}

BqRequests == [verb : {"bq"}, executor : BqExecutors, model : Opt({"a"})]

\* A request arrives at a route of dbt_fastapi_bq.
ReceiveBq ==
    /\ pc = "idle"
    /\ \E p \in BqRequests : payload' = Some(p)
    /\ pc' = "validated"
    /\ UNCHANGED <<manager, result, outcome, nodes, test_summary, invocations,
                   runner_args, raised_exception, response, validated, othervars>>

\* The route calls its executor, which runs the command once.
ExecuteBq ==
    /\ pc = "validated"
    /\ payload[1].verb = "bq"
    /\ \E proc \in CompletedProcesses :
         LET raised == IF payload[1].executor = "dbt_manager.py"
                       THEN bq_execute_dbt_command(proc)
                       ELSE utils_execute_dbt_command(proc, payload[1].model)
         IN /\ result' = Some(proc)
            /\ outcome' = Some(raised)
            /\ pc' = IF raised.raised THEN "raised" ELSE "returned"
    /\ invocations' = invocations + 1
    /\ UNCHANGED <<payload, manager, nodes, test_summary, runner_args,
                   raised_exception, response, validated, othervars>>

\* The answer: the status code of the exception, or 200 with the output.
RespondBq ==
    /\ pc \in {"raised", "returned"}
    /\ payload[1].verb = "bq"
    /\ response' = Some([status_code |-> IF outcome[1].raised
                                         THEN outcome[1].status_code[1]
                                         ELSE HTTP_200_OK,
                         content |-> outcome[1]])
    /\ pc' = "responded"
    /\ UNCHANGED <<payload, manager, result, outcome, nodes, test_summary,
                   invocations, runner_args, raised_exception, validated, othervars>>

(***************************************************************************)
(* The server.  FastAPI runs a handler declared async def on the event     *)
(* loop, which serves nothing else until the handler returns, and a        *)
(* handler declared def in a worker thread of its pool.                    *)
(***************************************************************************)
HTTP_503_SERVICE_UNAVAILABLE == 503

\* A request for one of the application's routes reaches the server.
Arrive ==
    \E h \in Handlers, r \in RoutesOf(application) :
        /\ handlers[h].pc = "idle"
        /\ handlers' = [handlers EXCEPT ![h] = [IdleHandler EXCEPT !.pc = "pending",
                                                                  !.route = Some(r)]]
        /\ UNCHANGED <<application, event_loop, requestvars, confvars>>

\* The free event loop takes a pending request: it runs an async def handler
\* itself and hands a def handler to a worker thread.
Dispatch ==
    \E h \in Handlers :
        /\ handlers[h].pc = "pending"
        /\ event_loop = 0
        /\ event_loop' = IF handlers[h].route[1].is_async THEN h ELSE 0
        /\ handlers' = [handlers EXCEPT ![h].pc = "running"]
        /\ UNCHANGED <<application, requestvars, confvars>>

\* Depends(get_dbt_config) of a command route, get_dbt_config() of
\* readiness_check: the cached object, or _config, which is then cached;
\* RuntimeError when there is none.
ResolveConfig ==
    \E h \in Handlers :
        /\ handlers[h].pc = "running"
        /\ handlers[h].route[1].config
        /\ IF get_dbt_config_cache # NoneVal
           THEN /\ handlers' = [handlers EXCEPT ![h].pc = "configured",
                                                ![h].config = get_dbt_config_cache]
                /\ UNCHANGED get_dbt_config_cache
           ELSE IF _config # NoneVal
           THEN /\ handlers' = [handlers EXCEPT ![h].pc = "configured",
                                                ![h].config = _config]
                /\ get_dbt_config_cache' = _config
           ELSE /\ handlers' =
                     [handlers EXCEPT
                        ![h].pc = "done",
                        ![h].status_code =
                            Some(IF handlers[h].route[1].path = "/readiness"
                                 THEN HTTP_503_SERVICE_UNAVAILABLE
                                 ELSE HTTP_500_INTERNAL_SERVER_ERROR)]
                /\ UNCHANGED get_dbt_config_cache
        /\ UNCHANGED <<application, event_loop, requestvars, _config, heap,
                       getter, writer, calls>>

\* Variant: the readiness check discovers the directories again and assigns
\* them to the shared object.
readiness_check_rediscovering ==
    \E h \in Handlers, exists \in BOOLEAN :
        /\ handlers[h].pc = "configured"
        /\ handlers[h].route[1].path = "/readiness"
        /\ heap' = [heap EXCEPT
                      ![handlers[h].config[1]].dbt_profiles_dir = Some(dbt_profiles_dir),
                      ![handlers[h].config[1]].dbt_project_dir = Some(dbt_project_dir)]
        /\ handlers' =
             [handlers EXCEPT
                ![h].pc = "done",
                ![h].dirs = Some(<<dbt_profiles_dir, dbt_project_dir>>),
                ![h].status_code = Some(IF exists THEN HTTP_200_OK
                                        ELSE HTTP_503_SERVICE_UNAVAILABLE)]
        /\ UNCHANGED <<application, event_loop, requestvars, _config,
                       get_dbt_config_cache, getter, writer, calls>>

\* readiness_check after get_dbt_config: validate_configuration reads the
\* two directories; the answer reports them, or is 503 when it raises.
readiness_check ==
    \E h \in Handlers, exists \in BOOLEAN :
        /\ handlers[h].pc = "configured"
        /\ handlers[h].route[1].path = "/readiness"
        /\ handlers' =
             [handlers EXCEPT
                ![h].pc = "done",
                ![h].dirs = Some(<<heap[handlers[h].config[1]].dbt_profiles_dir[1],
                                   heap[handlers[h].config[1]].dbt_project_dir[1]>>),
                ![h].status_code =
                    Some(IF validate_configuration(heap[handlers[h].config[1]], exists)
                         THEN HTTP_200_OK ELSE HTTP_503_SERVICE_UNAVAILABLE)]
        /\ UNCHANGED <<application, event_loop, requestvars, confvars>>

\* A handler that starts a dbt invocation reaches it: a command route of
\* dbt_fastapi builds its DbtManager from the directories of the
\* configuration and calls runner.invoke, a route of dbt_fastapi_bq calls
\* subprocess.run.  The call blocks the thread it is made on.
StartInvocation ==
    \E h \in Handlers :
        /\ handlers[h].route # NoneVal
        /\ handlers[h].route[1].invokes
        /\ handlers[h].pc = IF handlers[h].route[1].config THEN "configured"
                            ELSE "running"
        /\ handlers' =
             [handlers EXCEPT
                ![h].pc = "invoking",
                ![h].dirs =
                    IF handlers[h].route[1].config
                    THEN Some(<<heap[handlers[h].config[1]].dbt_profiles_dir[1],
                                heap[handlers[h].config[1]].dbt_project_dir[1]>>)
                    ELSE NoneVal]
        /\ UNCHANGED <<application, event_loop, requestvars, confvars>>

\* The invocation returns or raises.
EndInvocation ==
    \E h \in Handlers, code \in {HTTP_200_OK, HTTP_400_BAD_REQUEST,
                                  HTTP_500_INTERNAL_SERVER_ERROR} :
        /\ handlers[h].pc = "invoking"
        /\ handlers' = [handlers EXCEPT ![h].pc = "done",
                                        ![h].status_code = Some(code)]
        /\ UNCHANGED <<application, event_loop, requestvars, confvars>>

\* health_check and root: the answer is a constant.
Answer ==
    \E h \in Handlers :
        /\ handlers[h].pc = "running"
        /\ ~handlers[h].route[1].invokes
        /\ ~handlers[h].route[1].config
        /\ handlers' = [handlers EXCEPT ![h].pc = "done",
                                        ![h].status_code = Some(HTTP_200_OK)]
        /\ UNCHANGED <<application, event_loop, requestvars, confvars>>

\* The handler returns; an async def handler gives the event loop back.
Return ==
    \E h \in Handlers :
        /\ handlers[h].pc = "done"
        /\ handlers' = [handlers EXCEPT ![h] = IdleHandler]
        /\ event_loop' = IF event_loop = h THEN 0 ELSE event_loop
        /\ UNCHANGED <<application, requestvars, confvars>>

ReceivePlain == Receive(PlainRequests)

ReceiveAny == Receive(AllRequests)

ReceiveDefault == Receive(DefaultRequests)

ReceiveTest == Receive(TestRequests)

ExecuteAny == execute_dbt_command(ExecResults, DbtExceptions)

ExecutePlain == execute_dbt_command(PlainResults, {})

ExecuteResults == execute_dbt_command(ExecResults, {})

ExecuteTargets == execute_dbt_command(TargetResults, {})

ExecuteMessages == execute_dbt_command(MessageResults, {})

ExecuteNodes == execute_dbt_command(NodeResults, {})

ExecuteTests == execute_dbt_command(TestResults, {})

ExecuteUnsafe == execute_unsafe_dbt_command(PlainResults, DbtExceptions)

\* Requests without selection criteria, results of every shape.
Next ==
    ReceivePlain \/ Construct \/ ExecuteAny \/ ExtractResults \/ Respond \/ Finish

Spec == Init /\ [][Next]_vars

\* Requests with every selection string, results without records.
NextArgs ==
    ReceiveAny \/ Construct \/ ExecutePlain \/ ExtractResults \/ Respond \/ Finish

SpecArgs == Init /\ [][NextArgs]_vars

\* Requests for the default target, run results with messages.
NextMessages ==
    ReceiveDefault \/ Construct \/ ExecuteMessages \/ ExtractResults \/ Respond \/ Finish

SpecMessages == Init /\ [][NextMessages]_vars

\* Requests for the default target, results with distinguishable records.
NextNodes ==
    ReceiveDefault \/ Construct \/ ExecuteNodes \/ ExtractResults \/ Respond \/ Finish

SpecNodes == Init /\ [][NextNodes]_vars

\* Test and build requests with the flag, results of tests.
NextTests ==
    ReceiveTest \/ Construct \/ ExecuteTests \/ ExtractResults \/ Respond \/ Finish

SpecTests == Init /\ [][NextTests]_vars

\* Unsafe requests with every bounded command string.
NextUnsafe == ReceiveUnsafe \/ ExecuteUnsafe \/ RespondUnsafe \/ Finish

SpecUnsafe == Init /\ [][NextUnsafe]_vars

\* Requests without selection criteria, results of every shape, each result
\* validated again.
NextValidate ==
    ReceivePlain \/ Construct \/ ExecuteResults \/ Revalidate \/ ExtractResults
    \/ Respond \/ Finish

SpecValidate == Init /\ [][NextValidate]_vars

\* Requests for the default target, target-not-found failures.
NextTargets ==
    ReceiveDefault \/ Construct \/ ExecuteTargets \/ Respond \/ Finish

SpecTargets == Init /\ [][NextTargets]_vars

\* Requests to the subprocess executors of dbt_fastapi_bq.
NextBq == ReceiveBq \/ ExecuteBq \/ RespondBq \/ Finish

SpecBq == Init /\ [][NextBq]_vars

\* Concurrent requests to a server of either application.
NextServer ==
    Arrive \/ Dispatch \/ ResolveConfig \/ readiness_check \/ StartInvocation
    \/ EndInvocation \/ Answer \/ Return

SpecServer == InitServer /\ [][NextServer]_vars

\* One caller of config.py: a call returns before the next one starts.
NextConfig ==
    InitializeSequential \/ initialize_dbt_config_assign
    \/ initialize_dbt_config_clear \/ ResetSequential \/ reset_dbt_config_clear
    \/ GetSequential \/ get_dbt_config_call \/ get_dbt_config_store

SpecConfig == InitConfig /\ [][NextConfig]_vars

\* get_dbt_config in one thread, initialize_dbt_config and reset_dbt_config
\* in another.
NextConfigConcurrent ==
    InitializeConcurrent \/ initialize_dbt_config_assign
    \/ initialize_dbt_config_clear \/ ResetConcurrent \/ reset_dbt_config_clear
    \/ GetConcurrent \/ get_dbt_config_call \/ get_dbt_config_store

SpecConfigConcurrent == InitConfig /\ [][NextConfigConcurrent]_vars

(***************************************************************************)
(* Properties.                                                             *)
(***************************************************************************)
Req == payload[1]

Mgr == manager[1]

Res == result[1]

\* execute_dbt_command has run for the current request and dbt returned a
\* result.
Executed == pc \in {"returned", "raised", "extracted"} /\ result # NoneVal

\* The text of the result's exception contains the target-not-found marker.
MarkerInException ==
    /\ Res.exception # NoneVal
    /\ \E i \in 1..Len(Res.exception[1]) :
         \E j \in 1..Len(Res.exception[1][i]) :
            Res.exception[1][i][j] = "does not have a target named"

\* The run results of the payload (none for the other payload shapes).
RunRecords == IF Res.result.shape = "results" THEN Res.result.records ELSE <<>>

ErrorRecordIndexes == {i \in 1..Len(RunRecords) : RunRecords[i].status = <<"error">>}

Raised(kind, http_status) ==
    /\ pc = "raised"
    /\ outcome # NoneVal
    /\ outcome[1].kind = kind
    /\ outcome[1].http_status_code = http_status

\* C1: for every verb, a failed invocation whose exception text contains
\* "does not have a target named" makes execute_dbt_command raise
\* DbtTargetError (HTTP 400) with provided_target = the manager's target,
\* also when the payload holds run results with error status.
C1_TargetErrorFirst ==
    (Executed /\ ~Res.success /\ MarkerInException)
        => /\ Raised("DbtTargetError", 400)
           /\ outcome[1].provided_target = <<Mgr.target>>

\* C1 witness: a target error raised for target "bad" although the payload
\* holds a run result with error status.
C1_Witness ==
    /\ Executed /\ ~Res.success /\ MarkerInException
    /\ ErrorRecordIndexes # {}
    /\ Mgr.verb = "build"
    /\ Mgr.target = "bad"
    /\ Raised("DbtTargetError", 400)
    /\ outcome[1].provided_target = <<"bad">>

\* C2 as stated: for every verb, a failed invocation without the marker and
\* without error-status run results raises DbtExecutionError (HTTP 500).
C2_Original ==
    (Executed /\ ~Res.success /\ ~MarkerInException /\ ErrorRecordIndexes = {})
        => Raised("DbtExecutionError", 500)

\* C2 amended: under the same conditions DbtExecutionError (HTTP 500) is
\* raised for run, list and compile, and for test and build when the payload
\* has no "results" list; for test and build with a "results" list the
\* failed result is returned without an error.
C2_GenericExecutionError ==
    (Executed /\ ~Res.success /\ ~MarkerInException /\ ErrorRecordIndexes = {})
        => IF Mgr.verb \in {"test", "build"} /\ Res.result.shape = "results"
           THEN pc # "raised" /\ outcome = NoneVal
           ELSE Raised("DbtExecutionError", 500)

\* C2 witness: a failed compile with run results, none of them in error, and
\* an exception without the marker ends in DbtExecutionError.
C2_Witness ==
    /\ Executed /\ ~Res.success /\ ~MarkerInException
    /\ Res.exception # NoneVal
    /\ Mgr.verb = "compile"
    /\ Len(RunRecords) = 2
    /\ ErrorRecordIndexes = {}
    /\ Raised("DbtExecutionError", 500)

\* The error-status run results, in record order.
IsErrorRecord(rec) == rec.status = <<"error">>

ErrorRecords == SelectSeq(RunRecords, IsErrorRecord)

\* The lines of a run result's message (none for None and for "").
MessageLinesOf(rec) ==
    IF rec.message = <<>> \/ rec.message[1] = <<<<>>>> THEN <<>> ELSE rec.message[1]

MatchingLineIndexes(lines) ==
    {i \in 1..Len(lines) :
        \E j \in 1..Len(lines[i]) : lines[i][j] \in {"Syntax error:", "Error:"}}

FirstMatchingLine(lines) ==
    lines[CHOOSE i \in MatchingLineIndexes(lines) :
            \A k \in MatchingLineIndexes(lines) : i <= k]

\* A line without its leading and trailing whitespace.
Trimmed(line) ==
    LET inked == {j \in 1..Len(line) : line[j] # " "}
    IN IF inked = {} THEN <<>>
       ELSE SubSeq(line,
                   CHOOSE a \in inked : \A b \in inked : a <= b,
                   CHOOSE a \in inked : \A b \in inked : a >= b)

\* entry describes rec; trim says whether syntax_error is the trimmed line.
DescribesRecord(entry, rec, trim) ==
    /\ entry.name = rec.node.name
    /\ entry.path = rec.node.original_file_path
    /\ MessageLinesOf(rec) # <<>> => entry.error_message = rec.message[1]
    /\ entry.syntax_error =
         IF MatchingLineIndexes(MessageLinesOf(rec)) = {} THEN <<>>
         ELSE IF trim THEN <<Trimmed(FirstMatchingLine(MessageLinesOf(rec)))>>
         ELSE <<FirstMatchingLine(MessageLinesOf(rec))>>

CompilationCase ==
    /\ Executed /\ ~Res.success /\ ~MarkerInException
    /\ Mgr.verb # "list"
    /\ ErrorRecordIndexes # {}

CompilationErrorRaised(trim) ==
    /\ Raised("DbtCompilationError", 400)
    /\ outcome[1].failed_models # <<>>
    /\ Len(outcome[1].failed_models[1]) = Len(ErrorRecords)
    /\ \A k \in 1..Len(ErrorRecords) :
         DescribesRecord(outcome[1].failed_models[1][k], ErrorRecords[k], trim)

\* C3 as stated: a failed invocation of a verb other than list, without the
\* marker and with error-status run results, raises DbtCompilationError (400)
\* with one failed_models entry per error-status record, in order, whose
\* syntax_error equals the first line containing "Syntax error:" or "Error:".
C3_Original == CompilationCase => CompilationErrorRaised(FALSE)

\* C3 amended: as stated, except that syntax_error is that first matching
\* line with its leading and trailing whitespace stripped; for verb list the
\* check is skipped and no DbtCompilationError is raised.
C3_CompilationError ==
    /\ CompilationCase => CompilationErrorRaised(TRUE)
    /\ (Executed /\ ~Res.success /\ Mgr.verb = "list")
         => /\ pc = "raised"
            /\ outcome[1].kind # "DbtCompilationError"

\* C3 witness: two error-status records; the first entry's syntax_error is
\* the second line of its message, found indented and reported stripped, the
\* second entry has no message and no syntax_error.
C3_Witness ==
    /\ CompilationCase
    /\ Raised("DbtCompilationError", 400)
    /\ Len(outcome[1].failed_models[1]) = 2
    /\ outcome[1].failed_models[1][1].name = "b"
    /\ RunRecords[1].message =
         <<<<<<"Database Error in model">>,
             <<" ", " ", "Syntax error:", " Expected end of input">>>>>>
    /\ outcome[1].failed_models[1][1].syntax_error =
         <<<<"Syntax error:", " Expected end of input">>>>
    /\ outcome[1].failed_models[1][2].name = "a"
    /\ outcome[1].failed_models[1][2].syntax_error = <<>>

Extracted == pc = "extracted"

AllZero ==
    [total |-> 0, passed |-> 0, warned |-> 0, failed |-> 0, errored |-> 0,
     skipped |-> 0]

PassedOrFailedTest(rec) ==
    \/ rec.status \in {<<"pass">>, <<"success">>}
    \/ rec.node.resource_type = "test" /\ rec.status \in {<<"fail">>, <<"error">>}

\* C5: for test and build, an invocation whose only non-passing records are
\* test nodes with status fail or error does not make execute_dbt_command
\* raise.
C5_TestFailuresDoNotRaise ==
    (/\ Executed
     /\ Mgr.verb \in {"test", "build"}
     /\ ~MarkerInException
     /\ Res.result.shape = "results"
     /\ \A i \in 1..Len(RunRecords) : PassedOrFailedTest(RunRecords[i]))
        => pc # "raised"

\* A selection argument that is set: a non-empty string.
IsSet(arg) == arg # <<>> /\ arg[1] # <<>>

\* C6: a request in which selector_args is set (to a non-empty string)
\* together with select_args or exclude_args fails validation: no manager is
\* built and dbt is not invoked.
C6_MutualExclusion ==
    (/\ payload # <<>>
     /\ IsSet(Req.selector_args)
     /\ IsSet(Req.select_args) \/ IsSet(Req.exclude_args))
        => /\ pc \in {"rejected", "responded"}
           /\ manager = <<>>
           /\ result = <<>>
           /\ invocations = 0

\* C6 witness: a rejected request with exclude_args and selector_args set.
C6_Witness ==
    /\ pc = "rejected"
    /\ Req.select_args = <<>>
    /\ IsSet(Req.exclude_args)
    /\ IsSet(Req.selector_args)
    /\ invocations = 0

Occurrences(args, flag) == Cardinality({i \in 1..Len(args) : args[i] = <<flag>>})

\* C7: the argument list of every valid request starts with the verb, ends
\* with "--target" and the target, and holds "--project-dir" exactly once
\* and "--profiles-dir" exactly once.
C7_ArgumentShape ==
    manager # <<>>
        => /\ Mgr.dbt_cli_args[1] = <<Mgr.verb>>
           /\ Mgr.dbt_cli_args[Len(Mgr.dbt_cli_args) - 1] = <<"--target">>
           /\ Mgr.dbt_cli_args[Len(Mgr.dbt_cli_args)] = <<Mgr.target>>
           /\ Occurrences(Mgr.dbt_cli_args, "--project-dir") = 1
           /\ Occurrences(Mgr.dbt_cli_args, "--profiles-dir") = 1

\* C8: every summary returned for test or build satisfies
\* total = passed + warned + failed + errored + skipped.
C8_TotalIsSum ==
    (Extracted /\ test_summary # <<>>)
        => test_summary[1].total =
             test_summary[1].passed + test_summary[1].warned
             + test_summary[1].failed + test_summary[1].errored
             + test_summary[1].skipped

\* C8 witness: a summary of two tests, one warned and one with an
\* unrecognized status.
C8_Witness ==
    /\ Extracted /\ test_summary # <<>>
    /\ Len(RunRecords) = 2
    /\ RunRecords[1].status = <<"warn">>
    /\ RunRecords[2].status = <<"success">>
    /\ test_summary[1].total = 2
    /\ test_summary[1].warned = 1
    /\ test_summary[1].errored = 1

TestIndexes == {i \in 1..Len(RunRecords) : RunRecords[i].node.resource_type = "test"}

TestsWithStatus(S) == Cardinality({i \in TestIndexes : RunRecords[i].status \in S})

\* C9: for test and build every run result of a test node is counted in
\* exactly one bucket (passed, warned, failed, skipped by its status; errored
\* for error and for every unrecognized or missing status), other resource
\* types are not counted; for every other verb there is no summary.
C9_Buckets ==
    Extracted =>
        IF Mgr.verb \in {"test", "build"}
        THEN /\ test_summary # <<>>
             /\ test_summary[1].total = Cardinality(TestIndexes)
             /\ test_summary[1].passed = TestsWithStatus({<<"pass">>})
             /\ test_summary[1].warned = TestsWithStatus({<<"warn">>})
             /\ test_summary[1].failed = TestsWithStatus({<<"fail">>})
             /\ test_summary[1].skipped = TestsWithStatus({<<"skipped">>})
             /\ test_summary[1].errored =
                  Cardinality(TestIndexes)
                  - TestsWithStatus({<<"pass">>, <<"warn">>, <<"fail">>, <<"skipped">>})
        ELSE test_summary = <<>>

\* C9 witness: a build of a model and a test without status: the model is
\* not counted, the test is counted as errored.
C9_Witness ==
    /\ Extracted
    /\ Mgr.verb = "build"
    /\ Len(RunRecords) = 2
    /\ RunRecords[1].node.resource_type = "model"
    /\ RunRecords[2].node.resource_type = "test"
    /\ RunRecords[2].status = <<>>
    /\ test_summary = <<[AllZero EXCEPT !.total = 1, !.errored = 1]>>

NodesWithStatus(s) ==
    Cardinality({i \in 1..Len(nodes[1].nodes) :
                    /\ nodes[1].nodes[i].test_result # <<>>
                    /\ nodes[1].nodes[i].test_result[1].status = s})

\* C10: for test and build, the number of nodes whose test_result.status is
\* s equals the summary bucket of s, for s in pass, warn, fail, error, skip
\* (stated for results in which every run result carries a status).
C10_NodesAgreeWithSummary ==
    (/\ Extracted /\ Mgr.verb \in {"test", "build"}
     /\ \A i \in 1..Len(RunRecords) : RunRecords[i].status # <<>>)
        => /\ NodesWithStatus("pass") = test_summary[1].passed
           /\ NodesWithStatus("warn") = test_summary[1].warned
           /\ NodesWithStatus("fail") = test_summary[1].failed
           /\ NodesWithStatus("error") = test_summary[1].errored
           /\ NodesWithStatus("skip") = test_summary[1].skipped

\* The records of the payload, whatever its shape.
Records == Res.result.records

\* A record get_nodes_from_result can read: every run result, and a list
\* item that is a JSON document.
WellFormed(rec) == Res.result.shape = "list" => rec.decodable

\* C11: for both payload shapes, when every record is well-formed
\* get_nodes_from_result returns one node per record, in record order: the
\* i-th node has the unique_id, resource_type and depends_on of the i-th
\* record.
C11_OneNodePerRecord ==
    (Extracted /\ \A i \in 1..Len(Records) : WellFormed(Records[i]))
        => /\ ~nodes[1].raised
           /\ Len(nodes[1].nodes) = Len(Records)
           /\ \A i \in 1..Len(Records) :
                /\ nodes[1].nodes[i].unique_id = Records[i].node.unique_id
                /\ nodes[1].nodes[i].resource_type = Records[i].node.resource_type
                /\ nodes[1].nodes[i].depends_on = Records[i].node.depends_on

\* C11 witness: a list of two different records, b (with a dependency) before
\* a, whose nodes come out in that order.
C11_Witness ==
    /\ Extracted
    /\ Mgr.verb = "list"
    /\ Res.result.shape = "list"
    /\ Len(Records) = 2
    /\ Records[1].decodable /\ Records[2].decodable
    /\ Records[1].node.name = "b" /\ Records[2].node.name = "a"
    /\ Records[1].node.depends_on = <<"model.proj.c">>
    /\ ~nodes[1].raised
    /\ nodes[1].nodes[1].unique_id = <<"model", ".proj.", "b">>
    /\ nodes[1].nodes[1].depends_on = <<"model.proj.c">>
    /\ nodes[1].nodes[2].unique_id = <<"model", ".proj.", "a">>

IsDecodable(item) == item.decodable

\* C12: for the result of the verb list, get_nodes_from_result does not
\* raise and returns the nodes of exactly the decodable records, in order.
C12_SkipsUndecodable ==
    (Extracted /\ Mgr.verb = "list" /\ Res.result.shape = "list")
        => /\ ~nodes[1].raised
           /\ Len(nodes[1].nodes) = Len(SelectSeq(Records, IsDecodable))
           /\ \A i \in 1..Len(SelectSeq(Records, IsDecodable)) :
                nodes[1].nodes[i].unique_id
                    = SelectSeq(Records, IsDecodable)[i].node.unique_id

\* The exception runner.invoke raised and the typed error made of it.
Exc == raised_exception[1]

Err == outcome[1]

Translated == pc \in {"raised", "responded"} /\ raised_exception # <<>>

\* str(Exc) contains the target-not-found marker.
MarkerInRaised ==
    \E i \in 1..Len(Exc.text) :
        \E j \in 1..Len(Exc.text[i]) :
            Exc.text[i][j] = "does not have a target named"

\* The argument list as one string: the arguments with a space between.
Joined(args) ==
    [i \in 1..(2 * Len(args) - 1) |->
        IF i % 2 = 1 THEN args[(i + 1) \div 2] ELSE <<" ">>]

C14_OriginalExceptionKept ==
    /\ Translated => Err.original_exception = raised_exception
    /\ (pc = "raised" /\ Executed /\ ~Res.success /\ MarkerInException)
         => /\ Err.original_exception # <<>>
            /\ Err.original_exception[1].text = Res.exception[1]

\* C15: a 5xx response made of a raised exception is the same for every
\* other text of that exception that also ends in a 5xx response.
C15_No5xxTextDependence ==
    (pc = "responded" /\ raised_exception # <<>> /\ response[1].status_code >= 500)
        => \A t \in RaisedTexts :
              dbt_error_handler(
                  translate_dbt_exception([cls |-> Exc.cls, text |-> t],
                                          ManagerContext(Mgr))).status_code >= 500
              => dbt_error_handler(
                     translate_dbt_exception([cls |-> Exc.cls, text |-> t],
                                             ManagerContext(Mgr))).content
                 = response[1].content

\* C16: the response to a typed error has status 400 for DbtValidationError,
\* DbtTargetError, DbtConfigurationError and DbtCompilationError and 500 for
\* DbtExecutionError and DbtInternalError; its "error" is the kind name and
\* its "message" is a text string.
C16_ErrorResponseShape ==
    (pc = "responded" /\ outcome # <<>>)
        => /\ Err.kind \in {"DbtValidationError", "DbtTargetError",
                            "DbtConfigurationError", "DbtCompilationError"}
                => response[1].status_code = 400
           /\ Err.kind \in {"DbtExecutionError", "DbtInternalError"}
                => response[1].status_code = 500
           /\ response[1].content["error"] = Err.kind
           /\ response[1].content["message"].type = "str"

\* The route of a test or build request has answered an invocation that
\* completed (execute_dbt_command returned) with a failed or errored test.
AnsweredFailedTests ==
    /\ pc = "responded"
    /\ payload[1].verb \in {"test", "build"}
    /\ result # <<>> /\ outcome = <<>>
    /\ \E i \in TestIndexes : RunRecords[i].status \in {<<"fail">>, <<"error">>}

\* C17: for test and build, when strict handling is asked (the request does
\* not set pass_on_test_failures) and a test node has status fail or error,
\* the response is HTTP 422 with the test summary and the lists of failed and
\* passed tests.
C17_StrictGives422 ==
    (AnsweredFailedTests /\ ~Req.pass_on_test_failures)
        => /\ response[1].status_code = 422
           /\ {"test_summary", "failed_tests", "passed_tests"}
                \subseteq DOMAIN response[1].content.detail

\* C18: for test and build, a request with all defaults whose invocation
\* completes with failed or errored tests gets HTTP 200 with success, nodes,
\* metadata and test_summary.
C18_DefaultGives200 ==
    (AnsweredFailedTests /\ Req = [verb |-> Req.verb, target |-> <<>>,
                                   select_args |-> <<>>, exclude_args |-> <<>>,
                                   selector_args |-> <<>>,
                                   pass_on_test_failures |-> FALSE])
        => /\ response[1].status_code = 200
           /\ {"success", "nodes", "metadata", "test_summary"}
                \subseteq DOMAIN response[1].content

\* The command string of an unsafe request and its shell tokens.
Cmd == payload[1].unsafe_dbt_cli_command

Tokens == shlex_split(Cmd).tokens

\* C19: an unsafe command that contains "&&", "|", ";", "$(", "<" or ">", or
\* whose first token is not dbt, or in which a later token contains dbt, is
\* rejected by the validation and nothing is invoked; for a command that
\* passes, the arguments handed to the runner are the tokens after the
\* leading dbt.
C19_UnsafeSanitized ==
    (payload # <<>> /\ payload[1].verb = "unsafe")
        => /\ (\/ \E i \in 1..Len(Cmd) : Cmd[i] \in {"&&", "|", ";", "$(", "<", ">"}
               \/ Tokens = <<>>
               \/ Tokens[1] # <<"dbt">>
               \/ \E i \in 2..Len(Tokens) : Contains(Tokens[i], "dbt"))
                => /\ pc \in {"rejected", "responded"}
                   /\ invocations = 0
                   /\ runner_args = <<>>
           /\ pc \in {"validated", "returned", "raised"}
                => /\ Tokens # <<>> /\ Tokens[1] = <<"dbt">>
                   /\ invocations > 0 => runner_args = <<Tail(Tokens)>>

\* C19 witness: "dbt xx" passed the validation and the runner was handed
\* the one argument xx.
C19_Witness ==
    /\ payload # <<>> /\ payload[1].verb = "unsafe"
    /\ Cmd = <<"dbt", " ", "x", "x">>
    /\ pc = "returned"
    /\ invocations = 1
    /\ runner_args = <<<<<<"x", "x">>>>>>

\* C20: a request that passed the validation has invoked dbt exactly once
\* from the moment execute_dbt_command ends, whether the invocation returned
\* a successful result, returned a failed result or raised; before that, and
\* for a rejected request, nothing has been invoked.
C20_ExactlyOneInvocation ==
    /\ invocations \in {0, 1}
    /\ invocations = 1
         <=> \/ pc \in {"returned", "raised", "extracted"}
             \/ pc = "responded" /\ manager # <<>>
    /\ invocations = 1
         => \/ result # <<>> /\ raised_exception = <<>>
            \/ result = <<>> /\ raised_exception # <<>>
    /\ invocations = 1 => runner_args = <<Mgr.dbt_cli_args>>

\* C20 witness: the invocation returned a failed result, a typed error was
\* raised and answered, and dbt was invoked once.
C20_Witness ==
    /\ pc = "responded"
    /\ result # <<>>
    /\ ~Res.success
    /\ outcome # <<>>
    /\ Err.kind = "DbtExecutionError"
    /\ invocations = 1

(***************************************************************************)
(* The configuration singleton.                                            *)
(***************************************************************************)
\* The calls before call i that decide what get_dbt_config gives: the
\* resets and the initializations that succeeded.
Deciders(i) ==
    {j \in 1..(i - 1) : \/ calls[j].op = "reset"
                        \/ calls[j].op = "initialize" /\ ~calls[j].raised}

LastDecider(i) == CHOOSE j \in Deciders(i) : \A k \in Deciders(i) : k <= j

\* C21: in a sequence of initialize_dbt_config, reset_dbt_config and
\* get_dbt_config calls, get_dbt_config raises when no initialization has
\* succeeded since the start or since the last reset, and otherwise returns
\* the object that the most recent successful initialize_dbt_config returned.
C21_GetFollowsLastInitialize ==
    \A i \in 1..Len(calls) :
        calls[i].op = "get" =>
            IF Deciders(i) = {} \/ calls[LastDecider(i)].op = "reset"
            THEN calls[i].raised
            ELSE /\ ~calls[i].raised
                 /\ calls[i].value = calls[LastDecider(i)].value

\* Two initializations, each followed by a get: the second get is answered
\* after an earlier object was cached.
C21_Witness ==
    /\ Len(calls) = 4
    /\ calls[1] = Call("initialize", FALSE, Some(1))
    /\ calls[2] = Call("get", FALSE, Some(1))
    /\ calls[3] = Call("initialize", FALSE, Some(2))
    /\ calls[4] = Call("get", FALSE, Some(2))

\* No call of config.py is in flight.
Quiescent == getter.pc = "idle" /\ writer.pc = "idle"

\* C29: with get_dbt_config running concurrently with initialize_dbt_config
\* or reset_dbt_config, once the calls have returned the cache holds nothing
\* or the current value of _config, never a stale one.
C29_NoStaleCache ==
    Quiescent =>
        \/ get_dbt_config_cache = NoneVal
        \/ get_dbt_config_cache = _config

TypedErrorKinds ==
    {"DbtFastApiError", "DbtValidationError", "DbtTargetError",
     "DbtCompilationError", "DbtExecutionError", "DbtConfigurationError",
     "DbtInternalError"}

\* C23: what escapes execute_dbt_command is a DbtFastApiError, and
\* get_nodes_from_result and get_test_summary let no low-level exception
\* (such as a JSON decode error) escape, for any result payload.
C23_OnlyTypedErrorsEscape ==
    /\ pc = "raised" => outcome # NoneVal /\ outcome[1].kind \in TypedErrorKinds
    /\ pc = "extracted" => ~nodes[1].raised

\* C24: a DbtExecutionError raised for an invocation that reported failure
\* has a text message and carries, in its details, the command as the
\* space-joined invocation arguments and the suggestion to check the logs.
C24_ExecutionErrorCarriesCommand ==
    (pc = "raised" /\ result # NoneVal /\ outcome[1].kind = "DbtExecutionError")
        => /\ outcome[1].message.type = "str"
           /\ outcome[1].command = Some(Joined(runner_args[1]))
           /\ outcome[1].suggestion
                = Some(<<"Check dbt logs for detailed error information">>)

(***************************************************************************)
(* The valid targets of a target error.                                    *)
(***************************************************************************)
BeginsWithDash(line) == line # <<>> /\ Head(line) = "- "

\* The lines of the exception text that begin with "- ", in order.
TargetNameLines == SelectSeq(Res.exception[1], BeginsWithDash)

\* C25: the valid_targets of a DbtTargetError are the names on the lines of
\* the message that begin with "- ", whole and in order; a "- " in the middle
\* of a line adds no entry and a hyphen inside a name truncates none.
C25_ValidTargetsAreDashLines ==
    (pc = "raised" /\ result # NoneVal /\ outcome[1].kind = "DbtTargetError")
        => /\ Len(outcome[1].valid_targets[1]) = Len(TargetNameLines)
           /\ \A i \in 1..Len(TargetNameLines) :
                <<outcome[1].valid_targets[1][i]>> = Tail(TargetNameLines[i])

(***************************************************************************)
(* Concurrent requests.                                                    *)
(***************************************************************************)
\* C26: once the configuration is initialized no request handler writes it:
\* under every interleaving of command and readiness requests the global, the
\* cached object and the directories and default target of the DbtConfig
\* objects keep their values.
C26_HandlersNeverWriteConfig ==
    [][/\ heap' = heap
       /\ _config' = _config
       /\ get_dbt_config_cache # NoneVal
            => get_dbt_config_cache' = get_dbt_config_cache]_vars

\* A command request is in its invocation, with the directories it read from
\* a configuration set by the environment, while a readiness request has been
\* answered from the same object.
C26_Witness ==
    /\ application = "dbt_fastapi"
    /\ heap[1].dbt_profiles_dir = Some("/env/profiles")
    /\ handlers[1].pc = "invoking"
    /\ handlers[1].route[1].path = "build"
    /\ handlers[1].dirs = Some(<<"/env/profiles", "/project">>)
    /\ handlers[2].pc = "done"
    /\ handlers[2].route[1].path = "/readiness"
    /\ handlers[2].status_code = Some(HTTP_200_OK)
    /\ handlers[2].config = Some(1)

\* C27: no handler makes the blocking dbt invocation on the event loop: while
\* an invocation is in flight the loop is free to take other requests.
C27_InvocationOffEventLoop ==
    \A h \in Handlers : handlers[h].pc = "invoking" => event_loop # h

(***************************************************************************)
(* The subprocess executors.                                               *)
(***************************************************************************)
\* C28: in the subprocess executors, a command that exits with status 0 and
\* whose output contains "does not match any enabled nodes" or "Nothing to
\* do" fails with status 400 and error "Invalid dbt model selection", never
\* with a 500.
C28_EmptySelectionIs400 ==
    (/\ pc \in {"raised", "returned", "responded"}
     /\ payload[1].verb = "bq"
     /\ result[1].returncode = 0
     /\ ModelSelectionDetected(result[1].stdout))
        => /\ outcome[1].raised
           /\ outcome[1].status_code = Some(HTTP_400_BAD_REQUEST)
           /\ outcome[1].error = Some("Invalid dbt model selection")

(***************************************************************************)
(* The lists of a strict-mode answer.                                      *)
(***************************************************************************)
\* C30: the strict-mode answer to a test or build request with a failed or
\* errored test is a 422 whose failed_tests and passed_tests partition the
\* test nodes of the result: failed_tests has the tests with status fail or
\* error (as many as failed + errored of the summary), passed_tests the other
\* tests, and a node that is not a test is in neither and does not make the
\* handler fail.
C30_StrictListsPartitionTests ==
    (AnsweredFailedTests /\ ~Req.pass_on_test_failures)
        => /\ response[1].status_code = HTTP_422_UNPROCESSABLE_ENTITY
           /\ LET detail == response[1].content.detail
              IN /\ Len(detail.failed_tests)
                      = detail.test_summary.failed + detail.test_summary.errored
                 /\ Len(detail.failed_tests)
                      = Cardinality({i \in TestIndexes :
                                       RunRecords[i].status \in {<<"fail">>, <<"error">>}})
                 /\ Len(detail.failed_tests) + Len(detail.passed_tests)
                      = Cardinality(TestIndexes)

====
